---- MODULE Spec2Model ----
(***************************************************************************)
(* The three allocators of CustomMemoryAllocator (buddy, pool, stack) as   *)
(* state machines.  One behaviour drives one allocator instance, chosen by *)
(* `which`; the other two stay unconstructed.                              *)
(*                                                                         *)
(* Pointers of the buddy allocator are byte offsets from                   *)
(* m_buffer.start_address, NULL standing for nullptr.  The intrusive       *)
(* Buddy::next_free links live in `memory`, one cell per MIN_CAPACITY      *)
(* block start, exactly where the code writes them.                        *)
(***************************************************************************)
EXTENDS Integers, Sequences, FiniteSets, TLC

VARIABLES
    which,            \* "buddy" | "pool" | "stack": the allocator this behaviour drives
    ALLOCATOR_DEBUG,  \* the build: TRUE = debug build, FALSE = release build (NDEBUG)
    g_debug_checks,   \* allocator::g_debug_checks
    g_capacity_checks,\* allocator::g_capacity_checks
    buddy,            \* the buddy_allocator object
    pool,             \* the pool_allocator object
    stack,            \* the stack_allocator object
    ret,              \* the last call: its name, arguments and outcome
    live,             \* ghost: pointers handed out and not yet deallocated or invalidated
    marked,           \* ghost: the client's copy of the last mark() result
    calls             \* ghost: the number of calls made on the allocator so far

vars == <<which, ALLOCATOR_DEBUG, g_debug_checks, g_capacity_checks, buddy, pool, stack, ret, live,
          marked, calls>>

\* what no call changes: the allocator under test, the build and the two flags
config == <<which, ALLOCATOR_DEBUG, g_debug_checks, g_capacity_checks>>

----------------------------------------------------------------------------
(* Bounds of the model *)

\* the largest initial_level of a constructed buddy allocator
BuddyMaxLevel == 2

\* the number of calls a client makes on a buddy allocator
BuddyMaxCalls == 8

\* the number of calls in a run of allocate and deallocate only on a buddy allocator
BuddyDeepMaxCalls == 10

\* the largest block_count a pool allocator is constructed with
PoolMaxBlockCount == 2

\* the number of calls a client makes on a pool allocator
PoolMaxCalls == 7

----------------------------------------------------------------------------
(* Program constants *)

NULL == -1
MIN_CAPACITY == 1024
NumLevels == 18

Pow2(n) == 2 ^ n

Min(a, b) == IF a <= b THEN a ELSE b

Max(a, b) == IF a > b THEN a ELSE b

\* x < y between two size_t values, each held as the representative nearest 0
\* of its residue modulo 2^64 (a negative number stands for 2^64 minus its
\* magnitude)
ULess(x, y) == IF (x < 0) = (y < 0) THEN x < y ELSE y < 0

\* the flag combinations a build can run with: the release build fixes both flags
FlagCombinations ==
    { <<TRUE, d, c>> : d \in BOOLEAN, c \in BOOLEAN } \cup { <<FALSE, FALSE, TRUE>> }

\* no mark() result held
NoMark == [taken |-> FALSE]

\* the flags as each build starts: the buddy allocator reads neither flag
DefaultFlags == { <<TRUE, TRUE, TRUE>>, <<FALSE, FALSE, TRUE>> }

----------------------------------------------------------------------------
(* Buddy allocator: pure helpers *)

\* int(log2(q)) for q >= 1
RECURSIVE Log2Floor(_)
Log2Floor(q) == IF q <= 1 THEN 0 ELSE 1 + Log2Floor(q \div 2)

get_level(size) == Log2Floor(size \div MIN_CAPACITY)

RECURSIVE NextPow2From(_, _)
NextPow2From(power, size) == IF power < size THEN NextPow2From(power * 2, size) ELSE power

get_power_of_two(size) ==
    IF size <= MIN_CAPACITY THEN MIN_CAPACITY ELSE NextPow2From(1, size)

get_level_size(level) == MIN_CAPACITY * Pow2(level)

\* offset ^ block_size, block_size a power of two: flips that one bit
XorBit(offset, block_size) ==
    IF (offset \div block_size) % 2 = 1 THEN offset - block_size ELSE offset + block_size

\* the block starts of a buffer of `size` bytes
BlockStarts(size) == { k * MIN_CAPACITY : k \in 0 .. (size \div MIN_CAPACITY) - 1 }

\* std::make_unique<std::byte[]>(n) value-initialises: every link reads nullptr
ZeroMemory(size) == [a \in BlockStarts(size) |-> NULL]

NoFreeLists == [l \in 0 .. NumLevels - 1 |-> NULL]

\* a map with no keys (std::unordered_map::clear)
EmptyMap == [x \in {} |-> 0]

MapPut(m, k, v) == [x \in DOMAIN m \cup {k} |-> IF x = k THEN v ELSE m[x]]

MapErase(m, k) == [x \in DOMAIN m \ {k} |-> m[x]]

----------------------------------------------------------------------------
(* Buddy allocator: free lists.  Each helper takes and returns the object. *)

\* A block start outside the buffer makes the write of next_free a heap
\* overflow: undefined behaviour, recorded in `ub`; no call is modelled after it.
add_to_free_list(b, bud, level) ==
    IF bud \in DOMAIN b.memory
    THEN [b EXCEPT !.memory[bud] = b.freeLists[level],
                   !.freeLists[level] = bud]
    ELSE [b EXCEPT !.ub = TRUE]

\* The scan of remove_from_free_list: the node whose next_free is `bud`,
\* NULL when the list ends first, "loop" when the scan never ends.
RECURSIVE ScanForPrev(_, _, _, _)
ScanForPrev(b, current, bud, seen) ==
    IF current = NULL THEN [end |-> "notfound", node |-> NULL]
    ELSE IF b.memory[current] = bud THEN [end |-> "found", node |-> current]
    ELSE IF current \in seen THEN [end |-> "loop", node |-> NULL]
    ELSE ScanForPrev(b, b.memory[current], bud, seen \cup {current})

\* returns [obj, status]: status "ok", "runtime_error" (throw) or "hang"
remove_from_free_list(b, bud, level) ==
    IF b.freeLists[level] = NULL THEN [obj |-> b, status |-> "ok"]
    ELSE IF b.freeLists[level] = bud
    THEN [obj |-> [b EXCEPT !.freeLists[level] = b.memory[bud]], status |-> "ok"]
    ELSE LET s == ScanForPrev(b, b.freeLists[level], bud, {})
         IN  CASE s.end = "found" ->
                    [obj |-> [b EXCEPT !.memory[s.node] = b.memory[bud]], status |-> "ok"]
               [] s.end = "notfound" -> [obj |-> b, status |-> "runtime_error"]
               [] OTHER -> [obj |-> b, status |-> "hang"]

\* returns [obj, ptr]; the head is removed, which never scans
get_first_free_buddy(b, level) ==
    IF b.freeLists[level] = NULL THEN [obj |-> b, ptr |-> NULL]
    ELSE [obj |-> remove_from_free_list(b, b.freeLists[level], level).obj,
          ptr |-> b.freeLists[level]]

RECURSIVE find_non_empty_level_from(_, _)
find_non_empty_level_from(b, i) ==
    IF i >= NumLevels THEN -1
    ELSE IF b.freeLists[i] # NULL THEN i
    ELSE find_non_empty_level_from(b, i + 1)

find_non_empty_level(b, startLevel) == find_non_empty_level_from(b, startLevel)

\* pushes the upper half on level - 1; the lower half keeps the address
split_buddy(b, bud, level) ==
    add_to_free_list(b, bud + get_level_size(level) \div 2, level - 1)

find_buddy(b, bud, level) ==
    IF level = b.m_buffer.initial_level THEN NULL
    ELSE LET buddy_offset == XorBit(bud, get_level_size(level))
         IN  IF buddy_offset >= b.m_buffersize THEN NULL ELSE buddy_offset

\* returns [obj, status]; a throw keeps what was done before it
RECURSIVE try_merge_buddies(_, _, _)
try_merge_buddies(b, bud, level) ==
    LET buddyPair == find_buddy(b, bud, level)
    IN  IF buddyPair = NULL THEN [obj |-> b, status |-> "ok"]
        ELSE LET r1 == remove_from_free_list(b, bud, level)
             IN  IF r1.status # "ok" THEN r1
                 ELSE LET r2 == remove_from_free_list(r1.obj, buddyPair, level)
                      IN  IF r2.status # "ok" THEN r2
                          ELSE LET merged_buddy == Min(bud, buddyPair)
                               IN  try_merge_buddies(
                                       add_to_free_list(r2.obj, merged_buddy, level + 1),
                                       merged_buddy, level + 1)

----------------------------------------------------------------------------
(* Buddy allocator: the object and its member functions *)

\* a buddy_allocator before its constructor ran (the in-class initialisers)
BuddyUnconstructed ==
    [m_ownsMemory |-> FALSE,
     ub           |-> FALSE,
     m_buffersize |-> 0,
     m_buffer     |-> [size |-> 0, initial_level |-> 0],
     memory       |-> ZeroMemory(0),
     freeLists    |-> NoFreeLists,
     allocatedBuddies |-> EmptyMap]

buddy_releaseMemory(b) ==
    [b EXCEPT !.m_buffer.size = 0,
              !.memory = ZeroMemory(0),
              !.m_ownsMemory = FALSE,
              !.allocatedBuddies = EmptyMap,
              !.freeLists = NoFreeLists]

buddy_allocate_new_buffer(b) ==
    LET b0 == IF b.m_ownsMemory THEN buddy_releaseMemory(b) ELSE b
        level == get_level(b0.m_buffersize)
        b1 == [b0 EXCEPT !.memory = ZeroMemory(b0.m_buffersize),
                         !.m_buffer = [size |-> b0.m_buffersize, initial_level |-> level],
                         !.m_ownsMemory = TRUE]
    IN  add_to_free_list(b1, 0, level)

\* the constructor, for a buffersize it accepts
buddy_allocator(buffersize) ==
    buddy_allocate_new_buffer(
        [BuddyUnconstructed EXCEPT !.m_buffersize = get_power_of_two(buffersize)])

\* handle_allocation_error: a throw in the debug build, return nullptr otherwise
handle_allocation_error(debug) == IF debug THEN "runtime_error" ELSE "nullptr"

\* the while loop of allocate after its first pass fetched largerBuddy
RECURSIVE SplitLoop(_, _, _, _)
SplitLoop(b, bud, nonEmptyLevel, level) ==
    IF nonEmptyLevel > level
    THEN SplitLoop(split_buddy(b, bud, nonEmptyLevel), bud, nonEmptyLevel - 1, level)
    ELSE b

\* a faulty variant: allocate that serves a request larger than the buffer with
\* the largest block there is instead of refusing it
buddy_allocate_clamps_size(b, size, debug) ==
    IF ~b.m_ownsMemory
    THEN [obj |-> b, status |-> handle_allocation_error(debug), ptr |-> NULL]
    ELSE
    LET actualSize == get_power_of_two(Min(size, b.m_buffersize))
        level == get_level(actualSize)
        first == get_first_free_buddy(b, level)
        done(o, p) == [obj |-> [o EXCEPT !.allocatedBuddies = MapPut(@, p, level)],
                       status |-> "ok", ptr |-> p]
    IN  IF first.ptr # NULL THEN done(first.obj, first.ptr)
        ELSE LET nonEmptyLevel == find_non_empty_level(b, level + 1)
             IN  IF nonEmptyLevel = -1
                 THEN [obj |-> b, status |-> handle_allocation_error(debug), ptr |-> NULL]
                 ELSE LET larger == get_first_free_buddy(b, nonEmptyLevel)
                      IN  IF larger.ptr = NULL
                          THEN [obj |-> larger.obj,
                                status |-> handle_allocation_error(debug), ptr |-> NULL]
                          ELSE done(SplitLoop(larger.obj, larger.ptr, nonEmptyLevel, level),
                                    larger.ptr)

\* returns [obj, status, ptr]
buddy_allocate(b, size, debug) ==
    IF ~b.m_ownsMemory
    THEN [obj |-> b, status |-> handle_allocation_error(debug), ptr |-> NULL]
    ELSE IF size > b.m_buffersize
    THEN [obj |-> b, status |-> handle_allocation_error(debug), ptr |-> NULL]
    ELSE
    LET actualSize == get_power_of_two(size)
        level == get_level(actualSize)
        first == get_first_free_buddy(b, level)
        done(o, p) == [obj |-> [o EXCEPT !.allocatedBuddies = MapPut(@, p, level)],
                       status |-> "ok", ptr |-> p]
    IN  IF first.ptr # NULL THEN done(first.obj, first.ptr)
        ELSE LET nonEmptyLevel == find_non_empty_level(b, level + 1)
             IN  IF nonEmptyLevel = -1
                 THEN [obj |-> b, status |-> handle_allocation_error(debug), ptr |-> NULL]
                 ELSE LET larger == get_first_free_buddy(b, nonEmptyLevel)
                      IN  IF larger.ptr = NULL
                          THEN [obj |-> larger.obj,
                                status |-> handle_allocation_error(debug), ptr |-> NULL]
                          ELSE done(SplitLoop(larger.obj, larger.ptr, nonEmptyLevel, level),
                                    larger.ptr)

\* a faulty variant: deallocate that silently ignores a pointer it does not know
buddy_deallocate_ignores_unknown(b, ptr) ==
    IF ptr = NULL \/ ~b.m_ownsMemory \/ ptr \notin DOMAIN b.allocatedBuddies
    THEN [obj |-> b, status |-> "ok"]
    ELSE LET level == b.allocatedBuddies[ptr]
             b1 == [b EXCEPT !.allocatedBuddies = MapErase(@, ptr)]
         IN  try_merge_buddies(add_to_free_list(b1, ptr, level), ptr, level)

\* returns [obj, status]
buddy_deallocate(b, ptr) ==
    IF ptr = NULL THEN [obj |-> b, status |-> "invalid_argument"]
    ELSE IF ~b.m_ownsMemory THEN [obj |-> b, status |-> "invalid_argument"]
    ELSE IF ptr \notin DOMAIN b.allocatedBuddies
    THEN [obj |-> b, status |-> "invalid_argument"]
    ELSE LET level == b.allocatedBuddies[ptr]
             b1 == [b EXCEPT !.allocatedBuddies = MapErase(@, ptr)]
         IN  try_merge_buddies(add_to_free_list(b1, ptr, level), ptr, level)

RECURSIVE SumLevelSizes(_)
SumLevelSizes(m) ==
    IF DOMAIN m = {} THEN 0
    ELSE LET p == CHOOSE x \in DOMAIN m : TRUE
         IN  get_level_size(m[p]) + SumLevelSizes(MapErase(m, p))

buddy_getAllocatedSize(b) == SumLevelSizes(b.allocatedBuddies)

\* the debug build zero-fills the buffer before relinking the single block
buddy_reset(b, debug) ==
    IF b.m_ownsMemory
    THEN LET b1 == [b EXCEPT !.allocatedBuddies = EmptyMap,
                             !.freeLists = NoFreeLists,
                             !.memory = IF debug THEN ZeroMemory(b.m_buffer.size) ELSE @]
         IN  add_to_free_list(b1, 0, get_level(b.m_buffersize))
    ELSE buddy_allocate_new_buffer(b)

----------------------------------------------------------------------------
(* Pool allocator *)

(* A pointer into a pool is [base |-> its index in `pools`, off |-> the byte
   offset from pool.memory.get()].  Inside a pool the links written into the
   blocks (the void* at the start of each free block) are kept as offsets of that pool,
   NULL for nullptr, in `memory`, one cell per block.  size_t counters are held
   as the representative nearest 0 of their residue modulo 2^64, so 0 - 1 is
   -1 and stands for 2^64 - 1. *)

POOL_MAX_CAPACITY == 67108864
SizeofPointer == 8
AlignofInt == 4
AlignofMaxAlign == 16

NullPtr == [base |-> 0, off |-> NULL]

PoolPtr(k, off) == [base |-> k, off |-> off]

isAlignmentPowerOfTwo(alignment) ==
    alignment # 0 /\ \E k \in 0 .. 30 : alignment = Pow2(k)

\* (size + alignment - 1) & ~(alignment - 1) for a power-of-two alignment
getAlignedSize(size, alignment) ==
    LET x == size + alignment - 1 IN x - (x % alignment)

\* throwAllocationError: what it throws in each build
throwAllocationError(debug) == IF debug THEN "runtime_error" ELSE "bad_alloc"

PoolUnconstructed ==
    [m_ownsMemory |-> FALSE, ctorBlockSize |-> 0, m_blockSize |-> 0, m_blockCount |-> 0,
     m_alignment |-> 0, m_poolSize |-> 0, m_maxPools |-> 0, pools |-> <<>>]

\* `struct pool` as its in-class initialisers leave it, the memory value-initialised
NewPoolRecord(a) ==
    [size |-> 0, free_list_head |-> NULL, allocated_count |-> 0, free_count |-> 0,
     memory |-> [i \in { k * a.m_blockSize : k \in 0 .. a.m_blockCount - 1 } |-> NULL]]

\* the loop `for i in 0 .. m_blockCount - 1` that pushes block i on pool pl's
\* free list, continued from block i: it starts from the head and free_count
\* the pool already has
RECURSIVE ThreadFreeList(_, _, _)
ThreadFreeList(a, pl, i) ==
    IF i >= a.m_blockCount THEN pl
    ELSE ThreadFreeList(a,
             [pl EXCEPT !.memory[i * a.m_blockSize] = pl.free_list_head,
                        !.free_list_head = i * a.m_blockSize,
                        !.free_count = pl.free_count + 1],
             i + 1)

\* a faulty variant: allocate_new_pool that never looks at m_maxPools
allocate_new_pool_ignores_max_pools(a, debug, capacity_checks) ==
    IF a.m_ownsMemory /\ capacity_checks
          /\ a.m_poolSize * (Len(a.pools) + 1) > POOL_MAX_CAPACITY
    THEN [obj |-> a, status |-> throwAllocationError(debug)]
    ELSE LET new_pool == ThreadFreeList(a, [NewPoolRecord(a) EXCEPT !.size = a.m_poolSize], 0)
         IN  [obj |-> [a EXCEPT !.m_ownsMemory = TRUE, !.pools = Append(@, new_pool)],
              status |-> "ok"]

\* returns [obj, status]
allocate_new_pool(a, debug, capacity_checks) ==
    IF a.m_ownsMemory /\ capacity_checks
          /\ a.m_poolSize * (Len(a.pools) + 1) > POOL_MAX_CAPACITY
    THEN [obj |-> a, status |-> throwAllocationError(debug)]
    ELSE IF a.m_ownsMemory /\ capacity_checks
              /\ a.m_maxPools # 0 /\ Len(a.pools) + 1 > a.m_maxPools
    THEN [obj |-> a, status |-> throwAllocationError(debug)]
    ELSE LET new_pool == ThreadFreeList(a, [NewPoolRecord(a) EXCEPT !.size = a.m_poolSize], 0)
         IN  [obj |-> [a EXCEPT !.m_ownsMemory = TRUE, !.pools = Append(@, new_pool)],
              status |-> "ok"]

\* the constructor's validation: TRUE when it throws std::invalid_argument
pool_ctor_rejects(blockSize, initial_capacity, alignment) ==
    \/ blockSize = 0 \/ initial_capacity = 0
    \/ alignment # 0 /\ ~isAlignmentPowerOfTwo(alignment)
    \/ alignment # 0 /\ (alignment < AlignofInt \/ alignment > AlignofMaxAlign)
    \/ LET al == IF alignment = 0 THEN SizeofPointer ELSE alignment
           alignBlock == getAlignedSize(blockSize, al)
           bs == IF ~ULess(alignBlock, 8) THEN alignBlock ELSE 8
       IN  ULess(POOL_MAX_CAPACITY, bs * initial_capacity)

\* the constructor's first pool when the size_t product m_blockSize * m_blockCount
\* wrapped: make_unique gets the wrapped m_poolSize while the loop of
\* allocate_new_pool writes a link at i * m_blockSize for every i < m_blockCount,
\* which leaves the array
pool_ctor_overruns(blockSize, initial_capacity, alignment) ==
    LET al == IF alignment = 0 THEN SizeofPointer ELSE alignment
        alignBlock == getAlignedSize(blockSize, al)
        bs == IF ~ULess(alignBlock, 8) THEN alignBlock ELSE 8
    IN  \/ bs < 0
        \/ initial_capacity < 0
        \/ bs > POOL_MAX_CAPACITY \div initial_capacity

\* the constructor, for arguments it accepts
pool_allocator(blockSize, initial_capacity, alignment, maxPools) ==
    LET al == IF alignment = 0 THEN SizeofPointer ELSE alignment
        alignBlock == getAlignedSize(blockSize, al)
        bs == IF alignBlock >= 8 THEN alignBlock ELSE 8
        a == [PoolUnconstructed EXCEPT !.ctorBlockSize = blockSize,
                                       !.m_blockCount = initial_capacity,
                                       !.m_maxPools = maxPools,
                                       !.m_alignment = al,
                                       !.m_blockSize = bs,
                                       !.m_poolSize = bs * initial_capacity]
    IN  allocate_new_pool(a, TRUE, TRUE).obj

\* the index of the first pool with a free block, 0 when there is none
FirstPoolWithFreeBlock(a) ==
    IF \E k \in 1 .. Len(a.pools) : a.pools[k].free_list_head # NULL
    THEN CHOOSE k \in 1 .. Len(a.pools) :
            /\ a.pools[k].free_list_head # NULL
            /\ \A j \in 1 .. k - 1 : a.pools[j].free_list_head = NULL
    ELSE 0

\* the body of the loop of allocate for the pool that has a free block
PopFreeBlock(a, k) ==
    LET block == a.pools[k].free_list_head
    IN  [obj |-> [a EXCEPT !.pools[k].free_list_head = a.pools[k].memory[block],
                           !.pools[k].allocated_count = @ + 1,
                           !.pools[k].free_count = @ - 1],
         status |-> "ok", ptr |-> PoolPtr(k, block)]

\* a faulty variant: allocate that never compares the size with the block size
pool_allocate_any_size(a, size, debug, capacity_checks) ==
    IF ~a.m_ownsMemory
    THEN [obj |-> a, status |-> throwAllocationError(debug), ptr |-> NullPtr]
    ELSE IF FirstPoolWithFreeBlock(a) # 0
    THEN PopFreeBlock(a, FirstPoolWithFreeBlock(a))
    ELSE LET g == allocate_new_pool(a, debug, capacity_checks)
         IN  IF g.status # "ok"
             THEN [obj |-> g.obj, status |-> g.status, ptr |-> NullPtr]
             ELSE PopFreeBlock(g.obj, FirstPoolWithFreeBlock(g.obj))

\* returns [obj, status, ptr]; the recursive call after allocate_new_pool finds
\* the new pool's free list, which holds m_blockCount >= 1 blocks
pool_allocate(a, size, debug, capacity_checks) ==
    IF size > a.m_blockSize
    THEN [obj |-> a, status |-> throwAllocationError(debug), ptr |-> NullPtr]
    ELSE IF ~a.m_ownsMemory
    THEN [obj |-> a, status |-> throwAllocationError(debug), ptr |-> NullPtr]
    ELSE IF FirstPoolWithFreeBlock(a) # 0
    THEN PopFreeBlock(a, FirstPoolWithFreeBlock(a))
    ELSE LET g == allocate_new_pool(a, debug, capacity_checks)
         IN  IF g.status # "ok"
             THEN [obj |-> g.obj, status |-> g.status, ptr |-> NullPtr]
             ELSE PopFreeBlock(g.obj, FirstPoolWithFreeBlock(g.obj))

\* the debug walk over a pool's free list looking for ptr: "found" (double
\* free), "end" (nullptr reached) or "loop" (the walk never ends)
RECURSIVE WalkFreeList(_, _, _, _)
WalkFreeList(pl, walk, off, seen) ==
    IF walk = NULL THEN "end"
    ELSE IF walk = off THEN "found"
    ELSE IF walk \in seen THEN "loop"
    ELSE WalkFreeList(pl, pl.memory[walk], off, seen \cup {walk})

\* the index of the first pool whose range [start, end) holds ptr, 0 when none does
OwningPool(a, ptr) ==
    IF ptr.base \in 1 .. Len(a.pools) /\ ptr.off >= 0 /\ ptr.off < a.pools[ptr.base].size
    THEN ptr.base ELSE 0

\* a faulty variant: deallocate without the walk over the free list
pool_deallocate_no_walk(a, ptr, debug_checks) ==
    IF ptr = NullPtr THEN [obj |-> a, status |-> "invalid_argument"]
    ELSE IF ~a.m_ownsMemory THEN [obj |-> a, status |-> "invalid_argument"]
    ELSE IF OwningPool(a, ptr) = 0 THEN [obj |-> a, status |-> "runtime_error"]
    ELSE LET k == OwningPool(a, ptr)
             pl == a.pools[k]
         IN  IF ptr.off % a.m_blockSize # 0 THEN [obj |-> a, status |-> "runtime_error"]
             ELSE [obj |-> [a EXCEPT !.pools[k].memory[ptr.off] = pl.free_list_head,
                                     !.pools[k].free_list_head = ptr.off,
                                     !.pools[k].allocated_count = @ - 1,
                                     !.pools[k].free_count = @ + 1],
                   status |-> "ok"]

\* a faulty variant: deallocate that links the block in behind the head of the
\* free list instead of making it the head
pool_deallocate_behind_head(a, ptr, debug_checks) ==
    IF ptr = NullPtr THEN [obj |-> a, status |-> "invalid_argument"]
    ELSE IF ~a.m_ownsMemory THEN [obj |-> a, status |-> "invalid_argument"]
    ELSE IF OwningPool(a, ptr) = 0 THEN [obj |-> a, status |-> "runtime_error"]
    ELSE LET k == OwningPool(a, ptr)
             pl == a.pools[k]
             walk == IF debug_checks
                     THEN WalkFreeList(pl, pl.free_list_head, ptr.off, {})
                     ELSE "end"
             head == pl.free_list_head
         IN  IF ptr.off % a.m_blockSize # 0 THEN [obj |-> a, status |-> "runtime_error"]
             ELSE IF walk = "found" THEN [obj |-> a, status |-> "runtime_error"]
             ELSE IF walk = "loop" THEN [obj |-> a, status |-> "hang"]
             ELSE IF head = NULL
             THEN [obj |-> [a EXCEPT !.pools[k].memory[ptr.off] = NULL,
                                     !.pools[k].free_list_head = ptr.off,
                                     !.pools[k].allocated_count = @ - 1,
                                     !.pools[k].free_count = @ + 1],
                   status |-> "ok"]
             ELSE [obj |-> [a EXCEPT !.pools[k].memory[ptr.off] = pl.memory[head],
                                     !.pools[k].memory[head] = ptr.off,
                                     !.pools[k].allocated_count = @ - 1,
                                     !.pools[k].free_count = @ + 1],
                   status |-> "ok"]

\* a faulty variant: deallocate that takes any pointer into a pool for a block
pool_deallocate_any_offset(a, ptr, debug_checks) ==
    IF ptr = NullPtr THEN [obj |-> a, status |-> "invalid_argument"]
    ELSE IF ~a.m_ownsMemory THEN [obj |-> a, status |-> "invalid_argument"]
    ELSE IF OwningPool(a, ptr) = 0 THEN [obj |-> a, status |-> "runtime_error"]
    ELSE LET k == OwningPool(a, ptr)
             pl == a.pools[k]
             walk == IF debug_checks
                     THEN WalkFreeList(pl, pl.free_list_head, ptr.off, {})
                     ELSE "end"
         IN  IF walk = "found" THEN [obj |-> a, status |-> "runtime_error"]
             ELSE IF walk = "loop" THEN [obj |-> a, status |-> "hang"]
             ELSE [obj |-> [a EXCEPT !.pools[k].free_list_head = ptr.off,
                                     !.pools[k].allocated_count = @ - 1,
                                     !.pools[k].free_count = @ + 1],
                   status |-> "ok"]

\* returns [obj, status]
pool_deallocate(a, ptr, debug_checks) ==
    IF ptr = NullPtr THEN [obj |-> a, status |-> "invalid_argument"]
    ELSE IF ~a.m_ownsMemory THEN [obj |-> a, status |-> "invalid_argument"]
    ELSE IF OwningPool(a, ptr) = 0 THEN [obj |-> a, status |-> "runtime_error"]
    ELSE LET k == OwningPool(a, ptr)
             pl == a.pools[k]
             walk == IF debug_checks
                     THEN WalkFreeList(pl, pl.free_list_head, ptr.off, {})
                     ELSE "end"
         IN  IF ptr.off % a.m_blockSize # 0 THEN [obj |-> a, status |-> "runtime_error"]
             ELSE IF walk = "found" THEN [obj |-> a, status |-> "runtime_error"]
             ELSE IF walk = "loop" THEN [obj |-> a, status |-> "hang"]
             ELSE [obj |-> [a EXCEPT !.pools[k].memory[ptr.off] = pl.free_list_head,
                                     !.pools[k].free_list_head = ptr.off,
                                     !.pools[k].allocated_count = @ - 1,
                                     !.pools[k].free_count = @ + 1],
                   status |-> "ok"]

RECURSIVE SumAllocated(_, _)
SumAllocated(a, k) ==
    IF k = 0 THEN 0 ELSE a.pools[k].allocated_count * a.m_blockSize + SumAllocated(a, k - 1)

pool_getAllocatedSize(a) == SumAllocated(a, Len(a.pools))

pool_getObjectSize(a) == a.m_blockSize

\* returns [obj, status]
pool_reset(a, debug, capacity_checks) ==
    IF a.m_ownsMemory
    THEN LET first == ThreadFreeList(a, a.pools[1], 0)
         IN  [obj |-> [a EXCEPT !.pools = << [first EXCEPT !.allocated_count = 0] >>],
              status |-> "ok"]
    ELSE allocate_new_pool(a, debug, capacity_checks)

\* a faulty variant: releaseMemory that drops the pools but keeps m_ownsMemory set
pool_releaseMemory_keeps_flag(a) == [a EXCEPT !.pools = <<>>]

pool_releaseMemory(a) == [a EXCEPT !.pools = <<>>, !.m_ownsMemory = FALSE]

----------------------------------------------------------------------------
(* Stack allocator *)

(* A pointer into a stack buffer is [base |-> the identity of the buffer's heap
   array, off |-> the byte offset into it].  size_t offsets are kept as the
   representative nearest 0 of their residue modulo 2^64, so an offset that
   wrapped below zero is a negative number here. *)
STACK_MAX_CAPACITY == 67108864

StackPtr(region, off) == [base |-> region, off |-> off]

StackUnconstructed ==
    [m_ownsMemory |-> FALSE, m_bufferSize |-> 0, m_alignment |-> 0, m_resizable |-> FALSE,
     buffers |-> <<>>, allocation_history |-> <<>>]

\* `region` is the address make_unique returns for the new array
stack_allocate_new_buffer(s, region, debug, capacity_checks) ==
    IF s.m_ownsMemory /\ capacity_checks /\ ~s.m_resizable
    THEN [obj |-> s, status |-> throwAllocationError(debug)]
    ELSE IF /\ s.m_ownsMemory /\ capacity_checks /\ s.m_resizable
            /\ s.m_bufferSize * (Len(s.buffers) + 1) > STACK_MAX_CAPACITY
    THEN [obj |-> s, status |-> throwAllocationError(debug)]
    ELSE [obj |-> [s EXCEPT !.buffers = Append(@, [memory |-> region,
                                                    size |-> s.m_bufferSize,
                                                    offset |-> 0]),
                            !.m_ownsMemory = TRUE],
          status |-> "ok"]

\* the constructor's argument checks
stack_ctor_rejects(bufferSize, alignment) ==
    \/ bufferSize > STACK_MAX_CAPACITY
    \/ alignment # 0 /\ ~isAlignmentPowerOfTwo(alignment)
    \/ alignment # 0 /\ (alignment < AlignofInt \/ alignment > AlignofMaxAlign)

stack_allocator(bufferSize, alignment, resizable, region) ==
    LET s == [StackUnconstructed EXCEPT
                 !.m_bufferSize = bufferSize,
                 !.m_resizable = resizable,
                 !.m_alignment = IF alignment = 0 THEN SizeofPointer ELSE alignment]
    IN  stack_allocate_new_buffer(s, region, FALSE, FALSE).obj

RECURSIVE stack_allocate(_, _, _, _, _, _, _)
stack_allocate(s, size, alignment, region, debug, debug_checks, capacity_checks) ==
    IF ~s.m_ownsMemory
    THEN [obj |-> s, status |-> throwAllocationError(debug), ptr |-> NullPtr]
    ELSE IF alignment # 0 /\ ~isAlignmentPowerOfTwo(alignment)
    THEN [obj |-> s, status |-> "invalid_argument", ptr |-> NullPtr]
    ELSE IF alignment # 0 /\ alignment < AlignofInt
    THEN [obj |-> s, status |-> "invalid_argument", ptr |-> NullPtr]
    ELSE
        LET al == IF alignment = 0 THEN s.m_alignment ELSE alignment
            alignSize == getAlignedSize(size, al)
            n == Len(s.buffers)
            lastbuffer == s.buffers[n]
        IN  IF ULess(s.m_bufferSize, alignSize)
            THEN [obj |-> s, status |-> throwAllocationError(debug), ptr |-> NullPtr]
            ELSE IF ~ULess(lastbuffer.size, lastbuffer.offset + alignSize)
            THEN LET ptr == StackPtr(lastbuffer.memory, lastbuffer.offset)
                 IN  [obj |-> [s EXCEPT
                                  !.buffers[n].offset = @ + alignSize,
                                  !.allocation_history =
                                      IF debug /\ debug_checks
                                      THEN Append(@, [ptr |-> ptr, size |-> alignSize])
                                      ELSE @],
                      status |-> "ok", ptr |-> ptr]
            ELSE LET g == stack_allocate_new_buffer(s, region, debug, capacity_checks)
                 IN  IF g.status # "ok"
                     THEN [obj |-> g.obj, status |-> g.status, ptr |-> NullPtr]
                     ELSE stack_allocate(g.obj, size, alignment, region, debug, debug_checks,
                                         capacity_checks)

\* a faulty variant: deallocate that keeps a buffer it has emptied
DropEmptyBuffer_never(s) == s

\* the tail of deallocate: drop an empty buffer unless it is the only one
DropEmptyBuffer(s) ==
    IF s.buffers[Len(s.buffers)].offset = 0 /\ Len(s.buffers) > 1
    THEN [s EXCEPT !.buffers = SubSeq(@, 1, Len(@) - 1)]
    ELSE s

\* a faulty variant: deallocate that pops the top record whatever pointer it is given
stack_deallocate_pops_any(s, ptr, debug, debug_checks) ==
    IF ptr = NullPtr THEN [obj |-> s, status |-> "invalid_argument"]
    ELSE IF ~s.m_ownsMemory THEN [obj |-> s, status |-> "invalid_argument"]
    ELSE
        LET n == Len(s.buffers)
            lastbuffer == s.buffers[n]
        IN  IF debug /\ debug_checks
            THEN IF s.allocation_history = <<>>
                 THEN [obj |-> s, status |-> "undefined"]
                 ELSE LET h == Len(s.allocation_history)
                          last_alloc == s.allocation_history[h]
                      IN  [obj |-> DropEmptyBuffer(
                                    [s EXCEPT !.buffers[n].offset = @ - last_alloc.size,
                                              !.allocation_history = SubSeq(@, 1, h - 1)]),
                           status |-> "ok"]
            ELSE IF ptr.base # lastbuffer.memory
                 THEN [obj |-> s, status |-> "undefined"]
                 ELSE IF ptr.off >= lastbuffer.offset
                 THEN [obj |-> s, status |-> "invalid_argument"]
                 ELSE LET size == lastbuffer.offset - ptr.off
                      IN  IF ULess(lastbuffer.offset, size)
                          THEN [obj |-> s, status |-> "runtime_error"]
                          ELSE [obj |-> DropEmptyBuffer(
                                    [s EXCEPT !.buffers[n].offset = @ - size]),
                                status |-> "ok"]

\* a faulty variant: deallocate that pops the record but leaves the cursor
stack_deallocate_keeps_cursor(s, ptr, debug, debug_checks) ==
    IF ptr = NullPtr THEN [obj |-> s, status |-> "invalid_argument"]
    ELSE IF ~s.m_ownsMemory THEN [obj |-> s, status |-> "invalid_argument"]
    ELSE
        LET n == Len(s.buffers)
            lastbuffer == s.buffers[n]
        IN  IF debug /\ debug_checks
            THEN IF s.allocation_history = <<>>
                 THEN [obj |-> s, status |-> "undefined"]
                 ELSE LET h == Len(s.allocation_history)
                          last_alloc == s.allocation_history[h]
                      IN  IF last_alloc.ptr # ptr
                          THEN [obj |-> s, status |-> "invalid_argument"]
                          ELSE [obj |-> DropEmptyBuffer(
                                    [s EXCEPT !.allocation_history = SubSeq(@, 1, h - 1)]),
                                status |-> "ok"]
            ELSE IF ptr.base # lastbuffer.memory
                 THEN [obj |-> s, status |-> "undefined"]
                 ELSE IF ptr.off >= lastbuffer.offset
                 THEN [obj |-> s, status |-> "invalid_argument"]
                 ELSE LET size == lastbuffer.offset - ptr.off
                      IN  IF ULess(lastbuffer.offset, size)
                          THEN [obj |-> s, status |-> "runtime_error"]
                          ELSE [obj |-> DropEmptyBuffer(s), status |-> "ok"]

\* a faulty variant: deallocate that does not compare the pointer with the top
stack_deallocate_no_top_check(s, ptr, debug, debug_checks) ==
    IF ptr = NullPtr THEN [obj |-> s, status |-> "invalid_argument"]
    ELSE IF ~s.m_ownsMemory THEN [obj |-> s, status |-> "invalid_argument"]
    ELSE
        LET n == Len(s.buffers)
            lastbuffer == s.buffers[n]
        IN  IF debug /\ debug_checks
            THEN IF s.allocation_history = <<>>
                 THEN [obj |-> s, status |-> "undefined"]
                 ELSE LET h == Len(s.allocation_history)
                          last_alloc == s.allocation_history[h]
                      IN  IF last_alloc.ptr # ptr
                          THEN [obj |-> s, status |-> "invalid_argument"]
                          ELSE [obj |-> DropEmptyBuffer(
                                    [s EXCEPT !.buffers[n].offset = @ - last_alloc.size,
                                              !.allocation_history = SubSeq(@, 1, h - 1)]),
                                status |-> "ok"]
            ELSE IF ptr.base # lastbuffer.memory
                 THEN [obj |-> s, status |-> "undefined"]
                 ELSE LET size == lastbuffer.offset - ptr.off
                      IN  IF ULess(lastbuffer.offset, size)
                          THEN [obj |-> s, status |-> "runtime_error"]
                          ELSE [obj |-> DropEmptyBuffer(
                                    [s EXCEPT !.buffers[n].offset = @ - size]),
                                status |-> "ok"]

(* back() of an empty allocation_history, and the ordering and difference of
   two pointers into different arrays, are undefined: the call's outcome is
   "undefined" and nothing is said about the state it leaves. *)
stack_deallocate(s, ptr, debug, debug_checks) ==
    IF ptr = NullPtr THEN [obj |-> s, status |-> "invalid_argument"]
    ELSE IF ~s.m_ownsMemory THEN [obj |-> s, status |-> "invalid_argument"]
    ELSE
        LET n == Len(s.buffers)
            lastbuffer == s.buffers[n]
        IN  IF debug /\ debug_checks
            THEN IF s.allocation_history = <<>>
                 THEN [obj |-> s, status |-> "undefined"]
                 ELSE LET h == Len(s.allocation_history)
                          last_alloc == s.allocation_history[h]
                      IN  IF last_alloc.ptr # ptr
                          THEN [obj |-> s, status |-> "invalid_argument"]
                          ELSE [obj |-> DropEmptyBuffer(
                                    [s EXCEPT !.buffers[n].offset = @ - last_alloc.size,
                                              !.allocation_history = SubSeq(@, 1, h - 1)]),
                                status |-> "ok"]
            ELSE IF ptr.base # lastbuffer.memory
                 THEN [obj |-> s, status |-> "undefined"]
                 ELSE IF ptr.off >= lastbuffer.offset
                 THEN [obj |-> s, status |-> "invalid_argument"]
                 ELSE LET size == lastbuffer.offset - ptr.off
                      IN  IF ULess(lastbuffer.offset, size)
                          THEN [obj |-> s, status |-> "runtime_error"]
                          ELSE [obj |-> DropEmptyBuffer(
                                    [s EXCEPT !.buffers[n].offset = @ - size]),
                                status |-> "ok"]

RECURSIVE SumOffsets(_, _)
SumOffsets(buffers, i) ==
    IF i > Len(buffers) THEN 0 ELSE buffers[i].offset + SumOffsets(buffers, i + 1)

stack_getAllocatedSize(s) == SumOffsets(s.buffers, 1)

stack_getObjectSize(s, debug) ==
    IF ~debug THEN [status |-> "runtime_error", size |-> 0]
    ELSE [status |-> "ok",
          size |-> IF s.allocation_history = <<>> THEN 0
                   ELSE s.allocation_history[Len(s.allocation_history)].size]

\* a faulty variant: reset that drops the extra buffers but leaves the first one's offset
stack_reset_keeps_offset(s, region, debug, capacity_checks) ==
    IF s.m_ownsMemory
    THEN [obj |-> [s EXCEPT !.buffers = <<@[1]>>,
                            !.allocation_history = IF debug THEN <<>> ELSE @],
          status |-> "ok"]
    ELSE stack_allocate_new_buffer(s, region, debug, capacity_checks)

stack_reset(s, region, debug, capacity_checks) ==
    IF s.m_ownsMemory
    THEN [obj |-> [s EXCEPT !.buffers = <<[@[1] EXCEPT !.offset = 0]>>,
                            !.allocation_history = IF debug THEN <<>> ELSE @],
          status |-> "ok"]
    ELSE stack_allocate_new_buffer(s, region, debug, capacity_checks)

stack_releaseMemory(s, debug) ==
    [s EXCEPT !.buffers = <<>>,
              !.allocation_history = IF debug THEN <<>> ELSE @,
              !.m_ownsMemory = FALSE]

\* mark(): back() of an empty `buffers` is undefined
stack_mark(s) ==
    IF s.buffers = <<>>
    THEN [status |-> "undefined", mark |-> <<0, 0>>]
    ELSE [status |-> "ok", mark |-> <<Len(s.buffers), s.buffers[Len(s.buffers)].offset>>]

\* a faulty variant: reset_to_mark that does not compare the offsets
reset_to_mark_any_offset(s, mark) ==
    IF s.buffers = <<>> THEN [obj |-> s, status |-> "invalid_argument"]
    ELSE
        LET markTimeSize == mark[1]
            offset == mark[2]
            bufferSize == Len(s.buffers)
            sizeDiff == bufferSize - markTimeSize
        IN  IF sizeDiff < 0 THEN [obj |-> s, status |-> "runtime_error"]
            ELSE IF markTimeSize = 0 THEN [obj |-> s, status |-> "undefined"]
            ELSE [obj |-> [s EXCEPT !.buffers =
                                [SubSeq(@, 1, markTimeSize) EXCEPT ![markTimeSize].offset = offset]],
                  status |-> "ok"]

\* mark = <<buffer count, offset of the last buffer>>; a mark with buffer count 0
\* pops every buffer and then writes through back() of the empty vector
reset_to_mark(s, mark) ==
    IF s.buffers = <<>> THEN [obj |-> s, status |-> "invalid_argument"]
    ELSE
        LET markTimeSize == mark[1]
            offset == mark[2]
            bufferSize == Len(s.buffers)
            sizeDiff == bufferSize - markTimeSize
        IN  IF sizeDiff < 0 THEN [obj |-> s, status |-> "runtime_error"]
            ELSE IF sizeDiff = 0 /\ ULess(s.buffers[bufferSize].offset, offset)
            THEN [obj |-> s, status |-> "runtime_error"]
            ELSE IF markTimeSize = 0 THEN [obj |-> s, status |-> "undefined"]
            ELSE [obj |-> [s EXCEPT !.buffers =
                                [SubSeq(@, 1, markTimeSize) EXCEPT ![markTimeSize].offset = offset]],
                  status |-> "ok"]

----------------------------------------------------------------------------
(* Calls on the buddy allocator *)

\* constructor arguments tried: every multiple of MIN_CAPACITY up to the largest buffer
BuddyBufferSizes == { n * MIN_CAPACITY : n \in 1 .. Pow2(BuddyMaxLevel) }

\* request sizes tried: below the minimum, the block sizes, one that is rounded up
\* to the largest block, one larger than any buffer
BuddyRequestSizes ==
    {1, MIN_CAPACITY * Pow2(BuddyMaxLevel) - 1, MIN_CAPACITY * Pow2(BuddyMaxLevel) + 1}
        \cup { MIN_CAPACITY * Pow2(k) : k \in 0 .. BuddyMaxLevel - 1 }

\* does the allocator under test hold memory
Owns ==
    CASE which = "buddy" -> buddy.m_ownsMemory
      [] which = "pool" -> pool.m_ownsMemory
      [] which = "stack" -> stack.m_ownsMemory

\* ghost: what the allocator had just been through when a call was made
Phase ==
    IF ~Owns THEN "released"
    ELSE IF ret.op = "reset" THEN (IF ret.after = "released" THEN "revived" ELSE "reset")
    ELSE "in use"

\* the record of the last call: what was asked, when, and what came back
Call(op, size, arg, status, ptr) ==
    [op |-> op, size |-> size, arg |-> arg, status |-> status, ptr |-> ptr, after |-> Phase]

Constructed(null) ==
    [op |-> "construct", size |-> 0, arg |-> null, status |-> "ok", ptr |-> null,
     after |-> "nothing"]

InitBuddy ==
    /\ which = "buddy"
    /\ \E f \in DefaultFlags :
          /\ ALLOCATOR_DEBUG = f[1]
          /\ g_debug_checks = f[2]
          /\ g_capacity_checks = f[3]
    /\ \E buffersize \in BuddyBufferSizes : buddy = buddy_allocator(buffersize)
    /\ pool = PoolUnconstructed
    /\ stack = StackUnconstructed
    /\ ret = Constructed(NULL)
    /\ live = {}
    /\ marked = NoMark
    /\ calls = 0

\* the outcome of a call that ran into undefined behaviour is "undefined"
Outcome(obj, status) == IF obj.ub THEN "undefined" ELSE status

\* a call that never returns ("hang") or ran into undefined behaviour ends the
\* modelled run: nothing is called after it
Running == ret.status \notin {"hang", "undefined"}

BuddyAllocate ==
    /\ which = "buddy"
    /\ Running
    /\ calls < BuddyMaxCalls
    /\ calls' = calls + 1
    /\ \E size \in BuddyRequestSizes :
          LET r == buddy_allocate(buddy, size, ALLOCATOR_DEBUG)
          IN  /\ buddy' = r.obj
              /\ ret' = Call("allocate", size, NULL, Outcome(r.obj, r.status), r.ptr)
              /\ live' = IF r.status = "ok"
                         THEN live \cup {[ptr |-> r.ptr, level |-> r.obj.allocatedBuddies[r.ptr]]}
                         ELSE live
    /\ UNCHANGED <<config, pool, stack, marked>>

\* deallocate of a live pointer
BuddyDeallocate ==
    /\ which = "buddy"
    /\ Running
    /\ calls < BuddyMaxCalls
    /\ calls' = calls + 1
    /\ \E a \in live :
          LET r == buddy_deallocate(buddy, a.ptr)
          IN  /\ buddy' = r.obj
              /\ ret' = Call("deallocate", 0, a.ptr, Outcome(r.obj, r.status), NULL)
              /\ live' = IF r.status = "invalid_argument" THEN live ELSE live \ {a}
    /\ UNCHANGED <<config, pool, stack, marked>>

\* deallocate after releaseMemory: every pointer is stale by then
BuddyDeallocateReleased ==
    /\ which = "buddy"
    /\ Running
    /\ calls < BuddyMaxCalls
    /\ calls' = calls + 1
    /\ ~buddy.m_ownsMemory
    /\ \E ptr \in {NULL} \cup BlockStarts(buddy.m_buffersize) :
          LET r == buddy_deallocate(buddy, ptr)
          IN  /\ buddy' = r.obj
              /\ ret' = Call("deallocate", 0, ptr, r.status, NULL)
    /\ UNCHANGED <<config, pool, stack, marked, live>>

BuddyReset ==
    /\ which = "buddy"
    /\ Running
    /\ calls < BuddyMaxCalls
    /\ calls' = calls + 1
    /\ buddy' = buddy_reset(buddy, ALLOCATOR_DEBUG)
    /\ ret' = Call("reset", 0, NULL, "ok", NULL)
    /\ live' = {}
    /\ UNCHANGED <<config, pool, stack, marked>>

BuddyRelease ==
    /\ which = "buddy"
    /\ Running
    /\ calls < BuddyMaxCalls
    /\ calls' = calls + 1
    /\ buddy' = buddy_releaseMemory(buddy)
    /\ ret' = Call("release", 0, NULL, "ok", NULL)
    /\ live' = {}
    /\ UNCHANGED <<config, pool, stack, marked>>

BuddyNext ==
    \/ BuddyAllocate
    \/ BuddyDeallocate
    \/ BuddyDeallocateReleased
    \/ BuddyReset
    \/ BuddyRelease

SpecBuddy == InitBuddy /\ [][BuddyNext]_vars

\* ghost: the pointers the client holds as live
LivePointers == { a.ptr : a \in live }

\* pointers that are not live: null, the pointer just deallocated, any block
\* start, the middle of the first block, and the first byte after the buffer
BuddyStrayPointers ==
    ({NULL, MIN_CAPACITY \div 2, buddy.m_buffersize} \cup BlockStarts(buddy.m_buffersize))
        \ LivePointers

\* ghost: what kind of pointer a wrong deallocate was given
StrayKind(ptr, null) ==
    IF ptr = null THEN "deallocate_null"
    ELSE IF ret.op = "deallocate" /\ ret.status = "ok" /\ ret.arg = ptr
    THEN "deallocate_again"
    ELSE "deallocate_not_live"

\* deallocate of a pointer that is not live
BuddyDeallocateInvalid ==
    /\ which = "buddy"
    /\ Running
    /\ calls < BuddyMaxCalls
    /\ calls' = calls + 1
    /\ \E ptr \in BuddyStrayPointers :
          LET r == buddy_deallocate(buddy, ptr)
          IN  /\ buddy' = r.obj
              /\ ret' = Call(StrayKind(ptr, NULL), 0, ptr, Outcome(r.obj, r.status), NULL)
    /\ UNCHANGED <<config, pool, stack, marked, live>>

BuddyMisuseNext == BuddyNext \/ BuddyDeallocateInvalid

SpecBuddyMisuse == InitBuddy /\ [][BuddyMisuseNext]_vars

\* allocate, in a longer run of allocate and deallocate alone
BuddyDeepAllocate ==
    /\ which = "buddy"
    /\ Running
    /\ calls < BuddyDeepMaxCalls
    /\ calls' = calls + 1
    /\ \E size \in BuddyRequestSizes :
          LET r == buddy_allocate(buddy, size, ALLOCATOR_DEBUG)
          IN  /\ buddy' = r.obj
              /\ ret' = Call("allocate", size, NULL, Outcome(r.obj, r.status), r.ptr)
              /\ live' = IF r.status = "ok"
                         THEN live \cup {[ptr |-> r.ptr, level |-> r.obj.allocatedBuddies[r.ptr]]}
                         ELSE live
    /\ UNCHANGED <<config, pool, stack, marked>>

\* deallocate of a live pointer, in a longer run of allocate and deallocate alone
BuddyDeepDeallocate ==
    /\ which = "buddy"
    /\ Running
    /\ calls < BuddyDeepMaxCalls
    /\ calls' = calls + 1
    /\ \E a \in live :
          LET r == buddy_deallocate(buddy, a.ptr)
          IN  /\ buddy' = r.obj
              /\ ret' = Call("deallocate", 0, a.ptr, Outcome(r.obj, r.status), NULL)
              /\ live' = IF r.status = "invalid_argument" THEN live ELSE live \ {a}
    /\ UNCHANGED <<config, pool, stack, marked>>

BuddyDeepNext == BuddyDeepAllocate \/ BuddyDeepDeallocate

SpecBuddyDeep == InitBuddy /\ [][BuddyDeepNext]_vars

----------------------------------------------------------------------------
(* Calls on the pool allocator *)

\* a block of half MAX_CAPACITY
PoolBigBlock == POOL_MAX_CAPACITY \div 2

\* constructor arguments tried, <<blockSize, blockCount, alignment, maxPools>>:
\* a block already aligned, one below sizeof(void* ) that is raised to 8, one that is
\* rounded up to the alignment, each with 1 .. PoolMaxBlockCount blocks and no,
\* one or two pools allowed; and one pool of half MAX_CAPACITY
PoolConfigs ==
    { c \in ({ <<16, 0>>, <<4, 4>>, <<24, 16>> } \X (1 .. PoolMaxBlockCount) \X {0, 1, 2}) :
         ~pool_ctor_rejects(c[1][1], c[2], c[1][2]) }

PoolCtorArgs ==
    { <<c[1][1], c[2], c[1][2], c[3]>> : c \in PoolConfigs }
        \cup { <<PoolBigBlock, 1, 0, 0>>, <<PoolBigBlock, 1, 0, 3>> }

InitPool ==
    /\ which = "pool"
    /\ \E f \in FlagCombinations :
          /\ ALLOCATOR_DEBUG = f[1]
          /\ g_debug_checks = f[2]
          /\ g_capacity_checks = f[3]
    /\ \E c \in PoolCtorArgs : pool = pool_allocator(c[1], c[2], c[3], c[4])
    /\ buddy = BuddyUnconstructed
    /\ stack = StackUnconstructed
    /\ ret = Constructed(NullPtr)
    /\ live = {}
    /\ marked = NoMark
    /\ calls = 0

\* request sizes tried: a small one, exactly the block size, one byte more
PoolRequestSizes(a) == {5, a.m_blockSize, a.m_blockSize + 1}

PoolAllocate ==
    /\ which = "pool"
    /\ Running
    /\ calls < PoolMaxCalls
    /\ calls' = calls + 1
    /\ \E size \in PoolRequestSizes(pool) :
          LET r == pool_allocate(pool, size, ALLOCATOR_DEBUG, g_capacity_checks)
          IN  /\ pool' = r.obj
              /\ ret' = Call("allocate", size, NullPtr, r.status, r.ptr)
              /\ live' = IF r.status = "ok" THEN live \cup {r.ptr} ELSE live
    /\ UNCHANGED <<config, buddy, stack, marked>>

\* deallocate of a live pointer
PoolDeallocate ==
    /\ which = "pool"
    /\ Running
    /\ calls < PoolMaxCalls
    /\ calls' = calls + 1
    /\ \E ptr \in live :
          LET r == pool_deallocate(pool, ptr, g_debug_checks)
          IN  /\ pool' = r.obj
              /\ ret' = Call("deallocate", 0, ptr, r.status, NullPtr)
              /\ live' = IF r.status = "ok" THEN live \ {ptr} ELSE live
    /\ UNCHANGED <<config, buddy, stack, marked>>

\* deallocate after releaseMemory: every pointer is stale by then
PoolDeallocateReleased ==
    /\ which = "pool"
    /\ Running
    /\ ~pool.m_ownsMemory
    /\ calls < PoolMaxCalls
    /\ calls' = calls + 1
    /\ \E ptr \in {NullPtr, PoolPtr(1, 0)} :
          LET r == pool_deallocate(pool, ptr, g_debug_checks)
          IN  /\ pool' = r.obj
              /\ ret' = Call("deallocate", 0, ptr, r.status, NullPtr)
    /\ UNCHANGED <<config, buddy, stack, marked, live>>

PoolReset ==
    /\ which = "pool"
    /\ Running
    /\ calls < PoolMaxCalls
    /\ calls' = calls + 1
    /\ LET r == pool_reset(pool, ALLOCATOR_DEBUG, g_capacity_checks)
       IN  /\ pool' = r.obj
           /\ ret' = Call("reset", 0, NullPtr, r.status, NullPtr)
    /\ live' = {}
    /\ UNCHANGED <<config, buddy, stack, marked>>

PoolRelease ==
    /\ which = "pool"
    /\ Running
    /\ calls < PoolMaxCalls
    /\ calls' = calls + 1
    /\ pool' = pool_releaseMemory(pool)
    /\ ret' = Call("release", 0, NullPtr, "ok", NullPtr)
    /\ live' = {}
    /\ UNCHANGED <<config, buddy, stack, marked>>

PoolNext ==
    \/ PoolAllocate
    \/ PoolDeallocate
    \/ PoolDeallocateReleased
    \/ PoolReset
    \/ PoolRelease

SpecPool == InitPool /\ [][PoolNext]_vars

\* constructor arguments over the whole range of size_t: block sizes and block
\* counts that are small, at the 64 MiB limit, and within 16 of 2^64
PoolCtorBlockSizes == {0, 1, 5, 8, 24, PoolBigBlock, PoolBigBlock + 8, -8, -16, -24}

PoolCtorBlockCounts == {0, 1, 2, 3, -1, -2}

PoolCtorAlignments == {0, 3, AlignofInt, AlignofMaxAlign, 2 * AlignofMaxAlign}

\* the arguments of a constructor call about to be made
InitPoolCtor ==
    /\ which = "pool"
    /\ ALLOCATOR_DEBUG = TRUE /\ g_debug_checks = TRUE /\ g_capacity_checks = TRUE
    /\ \E bs \in PoolCtorBlockSizes, n \in PoolCtorBlockCounts, al \in PoolCtorAlignments :
          ret = [op |-> "arguments", size |-> bs, arg |-> [count |-> n, alignment |-> al],
                 status |-> "pending", ptr |-> NullPtr, after |-> "nothing"]
    /\ pool = PoolUnconstructed
    /\ buddy = BuddyUnconstructed
    /\ stack = StackUnconstructed
    /\ live = {}
    /\ marked = NoMark
    /\ calls = 0

\* pool_allocator(blockSize, initial_capacity, alignment, 0)
PoolConstruct ==
    /\ which = "pool"
    /\ ret.op = "arguments"
    /\ calls' = calls + 1
    /\ LET bs == ret.size
           n == ret.arg.count
           al == ret.arg.alignment
           status == IF pool_ctor_rejects(bs, n, al) THEN "invalid_argument"
                     ELSE IF pool_ctor_overruns(bs, n, al) THEN "undefined"
                     ELSE "ok"
       IN  /\ ret' = [ret EXCEPT !.op = "construct_pool", !.status = status]
           /\ pool' = IF status = "ok" THEN pool_allocator(bs, n, al, 0) ELSE PoolUnconstructed
    /\ UNCHANGED <<config, buddy, stack, marked, live>>

SpecPoolCtor == InitPoolCtor /\ [][PoolConstruct]_vars

\* the block starts of the pools the allocator holds
PoolBlockPointers ==
    { PoolPtr(k, i * pool.m_blockSize) :
         k \in 1 .. Len(pool.pools), i \in 0 .. pool.m_blockCount - 1 }

\* the block at offset off is reached by the walk over the free list of pool pl
OnFreeList(pl, off) == WalkFreeList(pl, pl.free_list_head, off, {}) = "found"

\* deallocate of a block the client does not hold: one already deallocated or
\* never handed out
PoolDeallocateFree ==
    /\ which = "pool"
    /\ Running
    /\ calls < PoolMaxCalls
    /\ calls' = calls + 1
    /\ \E ptr \in PoolBlockPointers \ live :
          LET r == pool_deallocate(pool, ptr, g_debug_checks)
          IN  /\ pool' = r.obj
              /\ ret' = Call("deallocate_free", 0, ptr, r.status, NullPtr)
    /\ UNCHANGED <<config, buddy, stack, marked, live>>

PoolMisuseNext == PoolNext \/ PoolDeallocateFree

SpecPoolMisuse == InitPool /\ [][PoolMisuseNext]_vars

\* pointers into a pool that are not the start of a block: one byte and four
\* bytes into the first block, four bytes into the second, the last byte
PoolMisalignedPointers ==
    { PoolPtr(k, off) :
         k \in 1 .. Len(pool.pools),
         off \in { o \in {1, 4, pool.m_blockSize + 4, pool.m_poolSize - 1} :
                      o < pool.m_poolSize /\ o % pool.m_blockSize # 0 } }

\* pointers into no pool of the allocator: nullptr, and the start and the
\* middle of a heap block that is not one of `pools` (pools holds 1 .. Len)
PoolForeignPointers ==
    {NullPtr, PoolPtr(Len(pool.pools) + 1, 0), PoolPtr(Len(pool.pools) + 1, 4)}

\* deallocate of a pointer inside a pool that is not the start of a block
PoolDeallocateMisaligned ==
    /\ which = "pool"
    /\ Running
    /\ calls < PoolMaxCalls
    /\ calls' = calls + 1
    /\ \E ptr \in PoolMisalignedPointers :
          LET r == pool_deallocate(pool, ptr, g_debug_checks)
          IN  /\ pool' = r.obj
              /\ ret' = Call("deallocate_misaligned", 0, ptr, r.status, NullPtr)
    /\ UNCHANGED <<config, buddy, stack, marked, live>>

\* deallocate of a pointer that lies in no pool of the allocator
PoolDeallocateForeign ==
    /\ which = "pool"
    /\ Running
    /\ calls < PoolMaxCalls
    /\ calls' = calls + 1
    /\ \E ptr \in PoolForeignPointers :
          LET r == pool_deallocate(pool, ptr, g_debug_checks)
          IN  /\ pool' = r.obj
              /\ ret' = Call("deallocate_foreign", 0, ptr, r.status, NullPtr)
    /\ UNCHANGED <<config, buddy, stack, marked, live>>

PoolStrayNext == PoolNext \/ PoolDeallocateMisaligned \/ PoolDeallocateForeign

SpecPoolStray == InitPool /\ [][PoolStrayNext]_vars

-----------------------------------------------------------------------------
(* Calls on the stack allocator *)

StackMaxCalls == 7

\* calls made in a behaviour that allocates sizes from the whole range of size_t
StackWideMaxCalls == 3

\* a buffer of one maximally aligned unit, and one of half MAX_CAPACITY
StackSmallBuffer == AlignofMaxAlign
StackBigBuffer == STACK_MAX_CAPACITY \div 2

\* constructor arguments tried, <<bufferSize, alignment, resizable>>
StackCtorArgs ==
    { c \in { <<StackSmallBuffer, 0, TRUE>>, <<StackSmallBuffer, 0, FALSE>>,
               <<StackSmallBuffer, AlignofInt, TRUE>>, <<StackBigBuffer, 0, TRUE>> } :
         ~stack_ctor_rejects(c[1], c[2]) }

\* flag combinations tried: the debug build with both checks on and with both
\* off, and the release build
StackFlags == { <<TRUE, TRUE, TRUE>>, <<TRUE, FALSE, FALSE>>, <<FALSE, FALSE, TRUE>> }

InitStack ==
    /\ which = "stack"
    /\ \E f \in StackFlags :
          /\ ALLOCATOR_DEBUG = f[1]
          /\ g_debug_checks = f[2]
          /\ g_capacity_checks = f[3]
    /\ \E c \in StackCtorArgs : stack = stack_allocator(c[1], c[2], c[3], 1)
    /\ buddy = BuddyUnconstructed
    /\ pool = PoolUnconstructed
    /\ ret = Constructed(NullPtr)
    /\ live = <<>>
    /\ marked = NoMark
    /\ calls = 0

\* requests tried, <<size, alignment>>: an int under its own alignment and under
\* the default one, a whole buffer under the largest alignment, one byte more
\* than a buffer, and two alignments allocate refuses
StackRequests(s) ==
    { <<AlignofInt, AlignofInt>>, <<AlignofInt, 0>>, <<s.m_bufferSize, AlignofMaxAlign>>,
      <<s.m_bufferSize + 1, 0>>, <<AlignofInt, 3>>, <<AlignofInt, 2>> }

(* The address of a new buffer: the heap may hand back an array freed earlier,
   which matters only when the allocator still holds a pointer into it, or an
   address it has not used. *)
RegionsOwned(s) == { s.buffers[k].memory : k \in 1 .. Len(s.buffers) }

RegionsRemembered(s) ==
    { s.allocation_history[k].ptr.base : k \in 1 .. Len(s.allocation_history) }

NewRegionChoices(s) ==
    LET used == RegionsOwned(s) \cup RegionsRemembered(s)
        fresh == CHOOSE r \in 1 .. Cardinality(used) + 1 :
                    r \notin used /\ \A q \in 1 .. r - 1 : q \in used
    IN  (RegionsRemembered(s) \ RegionsOwned(s)) \cup {fresh}

\* ghost: the allocation e still lies below the top of a buffer the allocator owns
Backed(s, e) ==
    \E k \in 1 .. Len(s.buffers) :
        /\ s.buffers[k].memory = e.ptr.base
        /\ e.ptr.off + e.size <= s.buffers[k].offset

StillLive(s, allocations) == SelectSeq(allocations, LAMBDA e : Backed(s, e))

RemoveAt(seq, i) == SubSeq(seq, 1, i - 1) \o SubSeq(seq, i + 1, Len(seq))

\* ghost: a call other than allocate and deallocate came after the mark was taken
Touched(m) == IF m.taken THEN [m EXCEPT !.clean = FALSE] ELSE m

StackAllocate ==
    /\ which = "stack"
    /\ Running
    /\ calls < StackMaxCalls
    /\ calls' = calls + 1
    /\ \E req \in StackRequests(stack) : \E region \in NewRegionChoices(stack) :
          LET r == stack_allocate(stack, req[1], req[2], region, ALLOCATOR_DEBUG,
                                  g_debug_checks, g_capacity_checks)
              reserved == stack_getAllocatedSize(r.obj) - stack_getAllocatedSize(stack)
          IN  /\ stack' = r.obj
              /\ ret' = Call("allocate", req[1], req[2], r.status, r.ptr)
              /\ live' = IF r.status = "ok"
                         THEN Append(live, [ptr |-> r.ptr, size |-> reserved])
                         ELSE live
    /\ UNCHANGED <<config, buddy, pool, marked>>

\* deallocate of a live pointer, the most recent one or not; ghost: the call
\* record's size is the number of live allocations made after the one given
StackDeallocate ==
    /\ which = "stack"
    /\ Running
    /\ calls < StackMaxCalls
    /\ calls' = calls + 1
    /\ \E i \in 1 .. Len(live) :
          LET r == stack_deallocate(stack, live[i].ptr, ALLOCATOR_DEBUG, g_debug_checks)
          IN  /\ stack' = r.obj
              /\ ret' = Call("deallocate", Len(live) - i, live[i].ptr, r.status, NullPtr)
              /\ live' = IF r.status = "ok" THEN StillLive(r.obj, RemoveAt(live, i))
                         ELSE live
    /\ UNCHANGED <<config, buddy, pool, marked>>

\* deallocate after releaseMemory: every pointer is stale by then
StackDeallocateReleased ==
    /\ which = "stack"
    /\ Running
    /\ ~stack.m_ownsMemory
    /\ calls < StackMaxCalls
    /\ calls' = calls + 1
    /\ \E ptr \in {NullPtr, StackPtr(1, 0)} :
          LET r == stack_deallocate(stack, ptr, ALLOCATOR_DEBUG, g_debug_checks)
          IN  /\ stack' = r.obj
              /\ ret' = Call("deallocate", 0, ptr, r.status, NullPtr)
    /\ UNCHANGED <<config, buddy, pool, marked, live>>

StackReset ==
    /\ which = "stack"
    /\ Running
    /\ calls < StackMaxCalls
    /\ calls' = calls + 1
    /\ \E region \in NewRegionChoices(stack) :
          LET r == stack_reset(stack, region, ALLOCATOR_DEBUG, g_capacity_checks)
          IN  /\ stack' = r.obj
              /\ ret' = Call("reset", 0, NullPtr, r.status, NullPtr)
    /\ live' = <<>>
    /\ marked' = Touched(marked)
    /\ UNCHANGED <<config, buddy, pool>>

StackRelease ==
    /\ which = "stack"
    /\ Running
    /\ calls < StackMaxCalls
    /\ calls' = calls + 1
    /\ stack' = stack_releaseMemory(stack, ALLOCATOR_DEBUG)
    /\ ret' = Call("release", 0, NullPtr, "ok", NullPtr)
    /\ live' = <<>>
    /\ marked' = Touched(marked)
    /\ UNCHANGED <<config, buddy, pool>>

\* mark(): the client keeps the pair; `allocated` is getAllocatedSize() at that moment
StackMark ==
    /\ which = "stack"
    /\ Running
    /\ calls < StackMaxCalls
    /\ calls' = calls + 1
    /\ LET r == stack_mark(stack)
       IN  /\ ret' = Call("mark", 0, NullPtr, r.status, NullPtr)
           /\ marked' = IF r.status = "ok"
                        THEN [taken |-> TRUE, mark |-> r.mark,
                              allocated |-> stack_getAllocatedSize(stack), clean |-> TRUE]
                        ELSE marked
    /\ UNCHANGED <<config, buddy, pool, stack, live>>

\* reset_to_mark with the mark the client holds
StackResetToMark ==
    /\ which = "stack"
    /\ Running
    /\ marked.taken
    /\ calls < StackMaxCalls
    /\ calls' = calls + 1
    /\ LET r == reset_to_mark(stack, marked.mark)
       IN  /\ stack' = r.obj
           /\ ret' = Call("reset_to_mark", 0, NullPtr, r.status, NullPtr)
           /\ live' = IF r.status = "ok" THEN StillLive(r.obj, live) ELSE live
    /\ marked' = Touched(marked)
    /\ UNCHANGED <<config, buddy, pool>>

\* requests over the whole range of size_t, <<size, alignment>>: sizes that are
\* small, around the buffer size, and within 16 of 2^64
StackWideRequests(s) ==
    {0, 1, AlignofInt, s.m_bufferSize, s.m_bufferSize + 1, -1, -7, -8, -15, -16}
        \X {0, AlignofInt, AlignofMaxAlign}

\* allocate with any size a size_t can hold
StackAllocateWide ==
    /\ which = "stack"
    /\ Running
    /\ calls < StackWideMaxCalls
    /\ calls' = calls + 1
    /\ \E req \in StackWideRequests(stack) : \E region \in NewRegionChoices(stack) :
          LET r == stack_allocate(stack, req[1], req[2], region, ALLOCATOR_DEBUG,
                                  g_debug_checks, g_capacity_checks)
              reserved == stack_getAllocatedSize(r.obj) - stack_getAllocatedSize(stack)
          IN  /\ stack' = r.obj
              /\ ret' = Call("allocate", req[1], req[2], r.status, r.ptr)
              /\ live' = IF r.status = "ok"
                         THEN Append(live, [ptr |-> r.ptr, size |-> reserved])
                         ELSE live
    /\ UNCHANGED <<config, buddy, pool, marked>>

SpecStackWide == InitStack /\ [][StackAllocateWide]_vars

\* pointers into the last buffer that are not live allocations: its first
\* byte, the last int below the top, the top, the first int above it, and the
\* end of the buffer
StackStalePointers ==
    IF stack.buffers = <<>> THEN {}
    ELSE LET B == stack.buffers[Len(stack.buffers)]
         IN  { StackPtr(B.memory, off) :
                  off \in { o \in {0, B.offset - AlignofInt, B.offset, B.offset + AlignofInt,
                                    stack.m_bufferSize} : o >= 0 /\ o <= stack.m_bufferSize } }
                \ { live[i].ptr : i \in 1 .. Len(live) }

\* deallocate of a pointer into the last buffer that is not a live allocation
StackDeallocateStale ==
    /\ which = "stack"
    /\ Running
    /\ calls < StackMaxCalls
    /\ calls' = calls + 1
    /\ \E ptr \in StackStalePointers :
          LET r == stack_deallocate(stack, ptr, ALLOCATOR_DEBUG, g_debug_checks)
          IN  /\ stack' = r.obj
              /\ ret' = Call("deallocate_stale", 0, ptr, r.status, NullPtr)
              /\ live' = IF r.status = "ok" THEN StillLive(r.obj, live) ELSE live
    /\ UNCHANGED <<config, buddy, pool, marked>>

StackStaleNext == StackAllocate \/ StackDeallocate \/ StackDeallocateStale

SpecStackStale == InitStack /\ [][StackStaleNext]_vars

StackNext ==
    \/ StackAllocate
    \/ StackDeallocate
    \/ StackDeallocateReleased
    \/ StackReset
    \/ StackRelease
    \/ StackMark
    \/ StackResetToMark

SpecStack == InitStack /\ [][StackNext]_vars

-----------------------------------------------------------------------------
(* Any of the three allocators *)

Init == InitBuddy \/ InitPool \/ InitStack

Next == BuddyNext \/ PoolNext \/ StackNext

Spec == Init /\ [][Next]_vars

----------------------------------------------------------------------------
(* Reading the buddy allocator's state *)

\* the blocks reached from `node` along next_free, at most `fuel` of them
RECURSIVE FreeChain(_, _, _)
FreeChain(b, node, fuel) ==
    IF node = NULL \/ fuel = 0 \/ node \notin DOMAIN b.memory THEN <<>>
    ELSE <<node>> \o FreeChain(b, b.memory[node], fuel - 1)

\* free_lists[level] as the sequence of its blocks, head first (cut after one lap of a cycle)
FreeList(b, level) == FreeChain(b, b.freeLists[level], Cardinality(DOMAIN b.memory) + 1)

\* the bytes [ptr, ptr + size_at_level(level)) of a block, as the block starts they cover
Covers(ptr, level, a) == ptr <= a /\ a < ptr + get_level_size(level)

RangesDisjoint(p, k, q, l) ==
    p + get_level_size(k) <= q \/ q + get_level_size(l) <= p

\* how many blocks, allocated or on a free list, cover the byte at `a`
CoverCount(b, a) ==
    Cardinality({ p \in DOMAIN b.allocatedBuddies : Covers(p, b.allocatedBuddies[p], a) })
    + Cardinality({ <<l, i>> \in (0 .. NumLevels - 1) \X (1 .. Cardinality(DOMAIN b.memory) + 1) :
                       /\ i <= Len(FreeList(b, l))
                       /\ Covers(FreeList(b, l)[i], l, a) })

----------------------------------------------------------------------------
(* Reading the pool allocator's state *)

\* the blocks reached from offset `node` along the links, at most `fuel` of them
RECURSIVE PoolChain(_, _, _)
PoolChain(pl, node, fuel) ==
    IF node = NULL \/ fuel = 0 THEN <<>>
    ELSE <<node>> \o PoolChain(pl, pl.memory[node], fuel - 1)

\* a pool's free list as the sequence of its blocks, head first (cut after
\* one lap of a cycle, which then shows as a sequence longer than the pool)
PoolFreeList(pl) == PoolChain(pl, pl.free_list_head, Cardinality(DOMAIN pl.memory) + 1)

\* the free list is a null-terminated chain of distinct block starts of the pool
PoolFreeListWellFormed(a, pl) ==
    LET fl == PoolFreeList(pl)
    IN  /\ Len(fl) <= a.m_blockCount
        /\ \A i \in 1 .. Len(fl) : \A j \in 1 .. Len(fl) : i # j => fl[i] # fl[j]
        /\ \A i \in 1 .. Len(fl) :
              fl[i] % a.m_blockSize = 0 /\ fl[i] >= 0 /\ fl[i] < pl.size

----------------------------------------------------------------------------
(* Claims *)

\* C1: buddy allocator: any two live allocations occupy disjoint byte ranges
\* [p, p + size_at_level(level(p))), so allocate never hands out an address
\* inside a block that is still live.
C1_LiveBlocksDisjoint ==
    (which = "buddy" /\ ~buddy.ub) =>
        \A a \in live : \A c \in live :
            a # c => RangesDisjoint(a.ptr, a.level, c.ptr, c.level)

\* C2: buddy allocator: while it owns memory, the allocated blocks and the
\* blocks on the free lists cover every byte of the buffer exactly once.
C2_BlocksPartitionBuffer ==
    (which = "buddy" /\ buddy.m_ownsMemory /\ ~buddy.ub) =>
        \A a \in BlockStarts(buddy.m_buffersize) : CoverCount(buddy, a) = 1

\* C3: pool allocator: allocate never returns a block that is live (handed out
\* since the last reset/release and not yet deallocated).
C3_PoolAllocateNeverReturnsLiveBlock ==
    [][(which = "pool" /\ calls' # calls /\ ret'.op = "allocate" /\ ret'.status = "ok")
          => ret'.ptr \notin live]_vars

\* C4: pool allocator: in every pool allocated_count + free_count = block_count
\* and the free list is a null-terminated chain of exactly free_count distinct
\* block starts of that pool.
C4_PoolCountsAndFreeList ==
    (which = "pool" /\ Running) =>
        \A k \in 1 .. Len(pool.pools) :
            LET pl == pool.pools[k]
            IN  /\ pl.allocated_count + pl.free_count = pool.m_blockCount
                /\ PoolFreeListWellFormed(pool, pl)
                /\ Len(PoolFreeList(pl)) = pl.free_count

\* C5: pool allocator: reset of an allocator that owns memory leaves exactly
\* the first pool, its free list rebuilt to hold each of its block_count blocks
\* exactly once, allocated_count = 0 and free_count = block_count.
C5_PoolResetRebuildsFirstPool ==
    [][(which = "pool" /\ calls' # calls /\ ret'.op = "reset" /\ pool.m_ownsMemory)
          => /\ Len(pool'.pools) = 1
             /\ PoolFreeListWellFormed(pool', pool'.pools[1])
             /\ Len(PoolFreeList(pool'.pools[1])) = pool'.m_blockCount
             /\ pool'.pools[1].allocated_count = 0
             /\ pool'.pools[1].free_count = pool'.m_blockCount]_vars

\* the last call failed: it signalled an error (an exception, or the buddy
\* allocator's nullptr in the release build) and handed out no pointer
Failed(c) ==
    /\ c.status # "ok"
    /\ IF which = "buddy" THEN c.ptr = NULL ELSE c.ptr = NullPtr

\* the request of allocate call c is one the allocator under test can serve:
\* no larger than the buffer (buddy), than a block (pool), or, once aligned under
\* an alignment allocate accepts, than a buffer (stack)
ValidRequest(c) ==
    CASE which = "buddy" -> c.size > 0 /\ c.size <= buddy.m_buffersize
      [] which = "pool" -> c.size <= pool.m_blockSize
      [] which = "stack" ->
            /\ c.arg = 0 \/ (isAlignmentPowerOfTwo(c.arg) /\ c.arg >= AlignofInt)
            /\ getAlignedSize(c.size, IF c.arg = 0 THEN stack.m_alignment ELSE c.arg)
                  <= stack.m_bufferSize

\* getAllocatedSize() of the allocator under test
AllocatedSize ==
    CASE which = "buddy" -> buddy_getAllocatedSize(buddy)
      [] which = "pool" -> pool_getAllocatedSize(pool)
      [] which = "stack" -> stack_getAllocatedSize(stack)

\* p points into the first region that allocator b, a or s (whichever is under
\* test) holds
InFirstRegion(b, a, s, p) ==
    CASE which = "buddy" -> p >= 0 /\ p < b.m_buffersize
      [] which = "pool" ->
            Len(a.pools) >= 1 /\ p.base = 1 /\ p.off >= 0 /\ p.off < a.pools[1].size
      [] which = "stack" ->
            /\ Len(s.buffers) >= 1
            /\ p.base = s.buffers[1].memory
            /\ p.off >= 0 /\ p.off < s.buffers[1].size

\* C6: each allocator: release leaves it without memory, and it stays so until
\* reset; while it is so every allocate and every deallocate fails, handing out
\* no pointer; reset after release succeeds, and the allocate of a valid size
\* that follows it succeeds.
C6_ReleasedUntilReset ==
    [][calls' # calls =>
          /\ ret'.op = "release" => ~Owns'
          /\ (~Owns /\ ret'.op # "reset") => ~Owns'
          /\ (~Owns /\ ret'.op \in {"allocate", "deallocate"}) => Failed(ret')
          /\ (~Owns /\ ret'.op = "reset") => (ret'.status = "ok" /\ Owns')
          /\ (ret.op = "reset" /\ ret.after = "released" /\ ret'.op = "allocate"
                /\ ValidRequest(ret'))
             => (ret'.status = "ok" /\ ~Failed(ret') /\ ret'.after = "revived")]_vars

\* C6 witness: an allocate succeeded right after a reset that revived a released allocator
C6_Witness == ret.op = "allocate" /\ ret.after = "revived" /\ ret.status = "ok"

\* C7: each allocator: right after reset, from whatever state, getAllocatedSize()
\* is 0, and the allocate of a valid size that follows succeeds and returns an
\* address inside the first region.
C7_ResetEmptiesAndReusesFirstRegion ==
    [][calls' # calls =>
          /\ ret'.op = "reset" => (ret'.status = "ok" /\ AllocatedSize' = 0)
          /\ (ret.op = "reset" /\ ret'.op = "allocate" /\ ValidRequest(ret'))
             => (ret'.status = "ok" /\ InFirstRegion(buddy', pool', stack', ret'.ptr))]_vars

\* C7 witness: an allocate succeeded inside the first region right after the
\* reset of an allocator that held memory
C7_Witness ==
    /\ ret.op = "allocate" /\ ret.after = "reset" /\ ret.status = "ok"
    /\ InFirstRegion(buddy, pool, stack, ret.ptr)

\* C8: stack allocator: when reset_to_mark(m) succeeds with only allocate and
\* deallocate calls made since mark() returned m, getAllocatedSize() is again
\* what it was at mark(), as many buffers remain as m records, and the next
\* allocation starts at the marked offset of the last buffer.
C8_MarkRoundTrip ==
    [][(/\ which = "stack" /\ calls' # calls
        /\ ret'.op = "reset_to_mark" /\ ret'.status = "ok"
        /\ marked.clean)
          => /\ stack_getAllocatedSize(stack') = marked.allocated
             /\ Len(stack'.buffers) = marked.mark[1]
             /\ stack'.buffers[Len(stack'.buffers)].offset = marked.mark[2]]_vars

\* C9: stack allocator: a pointer allocate returns is not null, lies inside a
\* buffer the allocator owns, and its offset from the buffer's base is a
\* multiple of the alignment in effect for the call (the one passed, or the
\* default one when 0 is passed).
C9_StackPointersAligned ==
    (which = "stack" /\ ret.op = "allocate" /\ ret.status = "ok") =>
        /\ ret.ptr # NullPtr
        /\ \E k \in 1 .. Len(stack.buffers) :
              /\ stack.buffers[k].memory = ret.ptr.base
              /\ ret.ptr.off >= 0 /\ ret.ptr.off < stack.buffers[k].size
        /\ ret.ptr.off % (IF ret.arg = 0 THEN stack.m_alignment ELSE ret.arg) = 0

\* C10: stack allocator, debug build with checks on: whenever an allocation is
\* live, the top allocation record holds the pointer of the most recent live
\* allocation, which is what makes deallocate accept that pointer.
C10_TopRecordIsMostRecentLive ==
    (which = "stack" /\ ALLOCATOR_DEBUG /\ g_debug_checks /\ Running /\ live # <<>>) =>
        /\ stack.allocation_history # <<>>
        /\ stack.allocation_history[Len(stack.allocation_history)].ptr = live[Len(live)].ptr

\* ghost: the bytes reserved by the first i live allocations that lie in `region`
RECURSIVE LiveBytesIn(_, _, _)
LiveBytesIn(allocations, region, i) ==
    IF i = 0 THEN 0
    ELSE (IF allocations[i].ptr.base = region THEN allocations[i].size ELSE 0)
         + LiveBytesIn(allocations, region, i - 1)

\* C11: stack allocator: each buffer's offset lies in [0, size] and is the sum
\* of the aligned sizes of the allocations live in that buffer, and
\* getAllocatedSize() is the sum of the offsets of all buffers.
C11_StackOffsetsAccountForLive ==
    (which = "stack" /\ Running) =>
        /\ \A k \in 1 .. Len(stack.buffers) :
              LET b == stack.buffers[k]
              IN  /\ b.offset >= 0 /\ b.offset <= b.size
                  /\ b.offset = LiveBytesIn(live, b.memory, Len(live))
        /\ stack_getAllocatedSize(stack) = SumOffsets(stack.buffers, 1)

\* C12: buddy allocator: whenever every allocation made since construction or
\* the last reset has been deallocated, the free lists hold exactly one block,
\* the whole buffer at initial_level (so the next allocate returns the base).
C12_AllFreedLeavesWholeBuffer ==
    (which = "buddy" /\ Running /\ buddy.m_ownsMemory /\ live = {}) =>
        \A l \in 0 .. NumLevels - 1 :
            FreeList(buddy, l) = IF l = buddy.m_buffer.initial_level THEN <<0>> ELSE <<>>

\* the blocks on free_lists[level], as a set
FreeSet(b, level) == { FreeList(b, level)[i] : i \in 1 .. Len(FreeList(b, level)) }

\* C13: buddy allocator: after a successful deallocate no level below
\* initial_level has two blocks on its free list that are buddies of each
\* other (offsets differing exactly by XOR with the level's block size).
C13_NoFreeBuddyPairAfterDeallocate ==
    (which = "buddy" /\ ret.op = "deallocate" /\ ret.status = "ok") =>
        \A k \in 0 .. buddy.m_buffer.initial_level - 1 :
            \A p \in FreeSet(buddy, k) :
                XorBit(p, get_level_size(k)) \notin FreeSet(buddy, k)

\* ghost: the block sizes of a set of live allocations, added up
RECURSIVE LiveBlockBytes(_)
LiveBlockBytes(allocations) ==
    IF allocations = {} THEN 0
    ELSE LET a == CHOOSE x \in allocations : TRUE
         IN  get_level_size(a.level) + LiveBlockBytes(allocations \ {a})

\* C14: buddy allocator: getAllocatedSize() is the sum of the block sizes of
\* the pointers allocate returned and deallocate has not taken back, hence 0
\* when every allocation has been deallocated.
C14_BuddyAllocatedSizeIsLiveSum ==
    (which = "buddy" /\ Running /\ ~buddy.ub) =>
        buddy_getAllocatedSize(buddy) = LiveBlockBytes(live)

\* C15: buddy allocator: deallocate of a null pointer, of a pointer allocate
\* never returned, or of one already deallocated fails with invalid_argument
\* and changes neither the free lists nor the allocation index.
C15_BuddyInvalidDeallocateRejected ==
    [][(/\ which = "buddy" /\ calls' # calls
        /\ ret'.op \in {"deallocate_null", "deallocate_again", "deallocate_not_live"})
          => /\ ret'.status = "invalid_argument"
             /\ buddy'.freeLists = buddy.freeLists
             /\ buddy'.memory = buddy.memory
             /\ buddy'.allocatedBuddies = buddy.allocatedBuddies]_vars

\* C15 witness: a second deallocate of the same pointer was refused while other
\* allocations were live
C15_Witness ==
    /\ which = "buddy" /\ ret.op = "deallocate_again" /\ ret.status = "invalid_argument"
    /\ live # {}

\* C16: buddy allocator: allocate(size) with a size below the 1 KiB minimum
\* block size fails by throwing.
C16_BelowMinimumSizeThrows ==
    (which = "buddy" /\ ret.op = "allocate" /\ ret.size < MIN_CAPACITY) =>
        ret.status \in {"runtime_error", "invalid_argument"}

\* C17: buddy allocator: allocate(size) with size > buffer_size always fails
\* (a runtime_error in debug mode, a null result in release mode) and changes
\* neither the free lists nor the allocation index.
C17_OversizeRequestRefused ==
    [][(/\ which = "buddy" /\ calls' # calls
        /\ ret'.op = "allocate" /\ ret'.size > buddy.m_buffersize)
          => /\ ret'.ptr = NULL
             /\ ret'.status = IF ALLOCATOR_DEBUG THEN "runtime_error" ELSE "nullptr"
             /\ buddy'.freeLists = buddy.freeLists
             /\ buddy'.memory = buddy.memory
             /\ buddy'.allocatedBuddies = buddy.allocatedBuddies]_vars

\* C17 witness: an allocator that owns its buffer and has a free block refused a
\* request larger than the buffer
C17_Witness ==
    /\ which = "buddy" /\ ret.op = "allocate" /\ ret.size > buddy.m_buffersize
    /\ ret.status # "ok" /\ buddy.m_ownsMemory
    /\ \E l \in 0 .. NumLevels - 1 : buddy.freeLists[l] # NULL

\* C18: pool allocator: right after a successful deallocate(p), the next
\* allocate of a size a block can hold returns the same address p, provided no
\* pool earlier in pool order than p's pool has a free block.
C18_FreedBlockIsReusedFirst ==
    [][(/\ which = "pool" /\ calls' # calls
        /\ ret.op = "deallocate" /\ ret.status = "ok"
        /\ ret'.op = "allocate" /\ ret'.size <= pool.m_blockSize
        /\ \A j \in 1 .. OwningPool(pool, ret.arg) - 1 : pool.pools[j].free_list_head = NULL)
          => /\ ret'.status = "ok"
             /\ ret'.ptr = ret.arg]_vars

\* C18 witness: a block of the second pool was just deallocated while the
\* first pool had no free block and the second pool had another one, and a
\* further call can follow
C18_Witness ==
    /\ which = "pool" /\ ret.op = "deallocate" /\ ret.status = "ok"
    /\ calls < PoolMaxCalls
    /\ OwningPool(pool, ret.arg) = 2
    /\ pool.pools[1].free_list_head = NULL
    /\ pool.pools[2].memory[pool.pools[2].free_list_head] # NULL

\* C19: pool allocator with max_pools = M > 0 and capacity checks enabled: the
\* pool set never holds more than M pools, the first M x block_count allocations
\* on a fresh allocator succeed, and an allocate issued while all M pools have
\* empty free lists fails as a capacity error without creating a pool.
C19_MaxPoolsBoundsGrowth ==
    /\ []((which = "pool" /\ g_capacity_checks /\ pool.m_maxPools > 0)
             => Len(pool.pools) <= pool.m_maxPools)
    /\ [][(/\ which = "pool" /\ g_capacity_checks /\ pool.m_maxPools > 0
           /\ calls' # calls
           /\ ret'.op = "allocate" /\ ret'.size <= pool.m_blockSize)
             => /\ (Cardinality(live) = calls /\ calls < pool.m_maxPools * pool.m_blockCount)
                      => ret'.status = "ok"
                /\ (/\ pool.m_ownsMemory
                    /\ Len(pool.pools) = pool.m_maxPools
                    /\ \A k \in 1 .. Len(pool.pools) : pool.pools[k].free_list_head = NULL)
                      => /\ ret'.status = throwAllocationError(ALLOCATOR_DEBUG)
                         /\ ret'.ptr = NullPtr
                         /\ pool' = pool]_vars

\* C19 as amended: the same, the first M x block_count allocations succeeding
\* when M pools fit in MAX_CAPACITY
C19_MaxPoolsBoundsGrowthWithinCapacity ==
    /\ []((which = "pool" /\ g_capacity_checks /\ pool.m_maxPools > 0)
             => Len(pool.pools) <= pool.m_maxPools)
    /\ [][(/\ which = "pool" /\ g_capacity_checks /\ pool.m_maxPools > 0
           /\ calls' # calls
           /\ ret'.op = "allocate" /\ ret'.size <= pool.m_blockSize)
             => /\ (/\ Cardinality(live) = calls
                    /\ calls < pool.m_maxPools * pool.m_blockCount
                    /\ pool.m_maxPools * pool.m_poolSize <= POOL_MAX_CAPACITY)
                      => ret'.status = "ok"
                /\ (/\ pool.m_ownsMemory
                    /\ Len(pool.pools) = pool.m_maxPools
                    /\ \A k \in 1 .. Len(pool.pools) : pool.pools[k].free_list_head = NULL)
                      => /\ ret'.status = throwAllocationError(ALLOCATOR_DEBUG)
                         /\ ret'.ptr = NullPtr
                         /\ pool' = pool]_vars

\* C19 witness: on a fresh allocator with two pools of two blocks allowed, four
\* allocations succeeded and the fifth failed with both pools full
C19_Witness ==
    /\ which = "pool" /\ g_capacity_checks
    /\ pool.m_maxPools = 2 /\ pool.m_blockCount = 2
    /\ Len(pool.pools) = 2
    /\ \A k \in 1 .. 2 : pool.pools[k].free_list_head = NULL
    /\ Cardinality(live) = 4 /\ calls = 5
    /\ ret.op = "allocate" /\ ret.size <= pool.m_blockSize
    /\ ret.status = throwAllocationError(ALLOCATOR_DEBUG)

\* C20: pool allocator: allocate(size) fails whenever size is larger than the
\* block_size the allocator was constructed with, for every block_size and
\* alignment.
C20_LargerThanBlockSizeFails ==
    (which = "pool" /\ ret.op = "allocate" /\ ret.size > pool.ctorBlockSize) =>
        (ret.status # "ok" /\ ret.ptr = NullPtr)

\* C20 as amended: allocate(size) fails whenever size is larger than the
\* effective block size, max(align_up(block_size, alignment), sizeof(pointer)).
C20_LargerThanAlignedBlockSizeFails ==
    (which = "pool" /\ ret.op = "allocate"
        /\ ret.size > Max(getAlignedSize(pool.ctorBlockSize, pool.m_alignment), SizeofPointer)) =>
        (ret.status = throwAllocationError(ALLOCATOR_DEBUG) /\ ret.ptr = NullPtr)

\* C20 witness: an allocator that owns a pool with a free block refused a request
\* one byte larger than its effective block size, which is larger than the
\* block size it was constructed with
C20_Witness ==
    /\ which = "pool" /\ ret.op = "allocate" /\ ret.status # "ok"
    /\ ret.size = pool.m_blockSize + 1
    /\ pool.m_blockSize > pool.ctorBlockSize
    /\ pool.m_ownsMemory
    /\ \E k \in 1 .. Len(pool.pools) : pool.pools[k].free_list_head # NULL

\* C21: pool allocator in debug mode with checks enabled: deallocate of a block
\* that is already on its pool's free list (a double free, or a block never
\* handed out) raises an error and leaves the free list, allocated_count and
\* free_count unchanged.
C21_DoubleFreeDetected ==
    [][(/\ which = "pool" /\ calls' # calls
        /\ ALLOCATOR_DEBUG /\ g_debug_checks
        /\ ret'.op \in {"deallocate", "deallocate_free"}
        /\ OwningPool(pool, ret'.arg) # 0
        /\ OnFreeList(pool.pools[OwningPool(pool, ret'.arg)], ret'.arg.off))
          => /\ ret'.status = "runtime_error"
             /\ pool' = pool]_vars

\* C21 witness: with checks enabled, a block just deallocated was deallocated
\* again and refused while another block was live
C21_Witness ==
    /\ which = "pool" /\ ALLOCATOR_DEBUG /\ g_debug_checks
    /\ ret.op = "deallocate_free" /\ ret.status = "runtime_error"
    /\ OnFreeList(pool.pools[OwningPool(pool, ret.arg)], ret.arg.off)
    /\ pool.pools[OwningPool(pool, ret.arg)].free_list_head = ret.arg.off
    /\ live # {}

\* C22: pool allocator: construction fails with invalid_argument whenever
\* aligned_block_size x block_count exceeds MAX_CAPACITY (64 MiB), for all
\* block_size and block_count values a size_t can hold. A negative number
\* stands for a value of 2^63 or more, whose product with any count but 0 is
\* above the limit.
C22_OversizedPoolRejected ==
    (which = "pool" /\ ret.op = "construct_pool") =>
        LET n == ret.arg.count
            al == IF ret.arg.alignment = 0 THEN SizeofPointer ELSE ret.arg.alignment
            valid == ret.arg.alignment = 0
                        \/ (/\ isAlignmentPowerOfTwo(ret.arg.alignment)
                            /\ ret.arg.alignment >= AlignofInt
                            /\ ret.arg.alignment <= AlignofMaxAlign)
            exceeds == /\ ret.size # 0 /\ n # 0 /\ valid
                       /\ \/ ret.size < 0
                          \/ n < 0
                          \/ Max(getAlignedSize(ret.size, al), SizeofPointer)
                                > POOL_MAX_CAPACITY \div n
        IN  exceeds => ret.status = "invalid_argument"

\* C23: stack allocator: after deallocate of the most recent allocation p, the
\* next allocate of any size that fits at p's offset returns the address p
\* again (same buffer, same offset), for non-resizable and resizable
\* allocators alike.
C23_FreedTopIsReused ==
    [][(/\ which = "stack" /\ calls' # calls
        /\ ret.op = "deallocate" /\ ret.status = "ok" /\ ret.size = 0
        /\ ret'.op = "allocate"
        /\ ret'.arg = 0 \/ (isAlignmentPowerOfTwo(ret'.arg) /\ ret'.arg >= AlignofInt)
        /\ ret.arg.off
             + getAlignedSize(ret'.size, IF ret'.arg = 0 THEN stack.m_alignment ELSE ret'.arg)
                <= stack.m_bufferSize)
          => /\ ret'.status = "ok"
             /\ ret'.ptr = ret.arg]_vars

\* C23 as amended: the same, when the deallocate did not empty and drop p's
\* buffer, which is then still the last buffer
C23_FreedTopIsReusedInKeptBuffer ==
    [][(/\ which = "stack" /\ calls' # calls
        /\ ret.op = "deallocate" /\ ret.status = "ok" /\ ret.size = 0
        /\ stack.buffers[Len(stack.buffers)].memory = ret.arg.base
        /\ ret'.op = "allocate"
        /\ ret'.arg = 0 \/ (isAlignmentPowerOfTwo(ret'.arg) /\ ret'.arg >= AlignofInt)
        /\ ret.arg.off
             + getAlignedSize(ret'.size, IF ret'.arg = 0 THEN stack.m_alignment ELSE ret'.arg)
                <= stack.m_bufferSize)
          => /\ ret'.status = "ok"
             /\ ret'.ptr = ret.arg]_vars

\* C23 witness: the most recent allocation, made in the second buffer behind an
\* earlier one, was just deallocated, and a further call can follow
C23_Witness ==
    /\ which = "stack" /\ ret.op = "deallocate" /\ ret.status = "ok" /\ ret.size = 0
    /\ calls < StackMaxCalls
    /\ Len(stack.buffers) = 2
    /\ stack.buffers[2].memory = ret.arg.base
    /\ ret.arg.off > 0
    /\ stack.buffers[2].offset = ret.arg.off

C25_ResetToMarkRejectsStaleMark ==
    [][(/\ which = "stack" /\ calls' # calls
        /\ ret'.op = "reset_to_mark"
        /\ \/ stack.buffers = <<>>
           \/ Len(stack.buffers) < marked.mark[1]
           \/ /\ Len(stack.buffers) = marked.mark[1]
              /\ stack.buffers[Len(stack.buffers)].offset < marked.mark[2])
          => /\ ret'.status \in {"invalid_argument", "runtime_error"}
             /\ stack' = stack]_vars

\* C25 witness: a mark taken in the second buffer was refused after the cursor
\* of that buffer had moved below it
C25_Witness ==
    /\ which = "stack" /\ ret.op = "reset_to_mark" /\ ret.status = "runtime_error"
    /\ marked.mark[1] = 2 /\ Len(stack.buffers) = 2
    /\ stack.buffers[2].offset < marked.mark[2]

\* C26: stack allocator constructed with resizable = false: in every reachable
\* state, whatever the values of the debug_checks and capacity_checks flags, it
\* owns at most one buffer, and an allocate that does not fit in the remaining
\* space of that buffer fails and leaves the cursor unchanged.
C26_NonResizableKeepsOneBuffer ==
    /\ []((which = "stack" /\ ~stack.m_resizable) => Len(stack.buffers) <= 1)
    /\ [][(/\ which = "stack" /\ calls' # calls
           /\ ~stack.m_resizable /\ stack.m_ownsMemory
           /\ ret'.op = "allocate"
           /\ ret'.arg = 0 \/ (isAlignmentPowerOfTwo(ret'.arg) /\ ret'.arg >= AlignofInt)
           /\ stack.buffers[Len(stack.buffers)].offset
                + getAlignedSize(ret'.size, IF ret'.arg = 0 THEN stack.m_alignment ELSE ret'.arg)
                   > stack.buffers[Len(stack.buffers)].size)
             => /\ ret'.status # "ok" /\ ret'.ptr = NullPtr
                /\ stack'.buffers = stack.buffers]_vars

\* C27: stack allocator: every successful allocate(size, alignment) reserves at
\* least size bytes (the cursor advances by an amount >= size) and every request
\* with size > buffer_size is rejected, for all size values a size_t can hold.
C27_AllocateReservesRequestedSize ==
    (which = "stack" /\ ret.op = "allocate") =>
        /\ ret.status = "ok" => ~ULess(live[Len(live)].size, ret.size)
        /\ ULess(stack.m_bufferSize, ret.size) => ret.status # "ok"

\* the number of blocks the double-free walk of deallocate looks at before it
\* stops at ptr or at the end of the list (or comes back to a block it has seen)
RECURSIVE ScanVisits(_, _, _, _)
ScanVisits(pl, walk, off, seen) ==
    IF walk = NULL \/ walk \in seen THEN 0
    ELSE IF walk = off THEN 1
    ELSE 1 + ScanVisits(pl, pl.memory[walk], off, seen \cup {walk})

\* C28: pool allocator: every call to deallocate terminates from every
\* reachable state (states after reset included); in debug mode the
\* double-free scan visits at most free_count blocks.
C28_PoolDeallocateTerminates ==
    [][(/\ which = "pool" /\ calls' # calls
        /\ ret'.op = "deallocate")
          => /\ ret'.status # "hang"
             /\ (g_debug_checks /\ pool.m_ownsMemory /\ OwningPool(pool, ret'.arg) # 0)
                   => LET pl == pool.pools[OwningPool(pool, ret'.arg)]
                      IN  ScanVisits(pl, pl.free_list_head, ret'.arg.off, {})
                             <= pl.free_count]_vars

\* C29: buddy allocator: deallocate of a block at level k merges it with its
\* buddy only if the buddy is on free_lists[k]; when the buddy is allocated or
\* has been split into smaller blocks, the freed block stays on free_lists[k]
\* and no free list at a level above k changes.
C29_MergeOnlyWithFreeBuddy ==
    [][(/\ which = "buddy" /\ calls' # calls
        /\ ret'.op = "deallocate" /\ buddy.m_ownsMemory
        /\ ret'.arg \in DOMAIN buddy.allocatedBuddies
        /\ buddy.allocatedBuddies[ret'.arg] < buddy.m_buffer.initial_level
        /\ XorBit(ret'.arg, get_level_size(buddy.allocatedBuddies[ret'.arg]))
              \notin FreeSet(buddy, buddy.allocatedBuddies[ret'.arg]))
          => /\ ret'.status = "ok"
             /\ ret'.arg \in FreeSet(buddy', buddy.allocatedBuddies[ret'.arg])
             /\ \A l \in buddy.allocatedBuddies[ret'.arg] + 1 .. NumLevels - 1 :
                   FreeList(buddy', l) = FreeList(buddy, l)]_vars

\* C30: buddy allocator: deallocate of any live pointer always completes
\* without raising an error, in every reachable state; in particular the
\* runtime_error 'buddy not in free list' is never raised under valid use, and
\* a deallocate that raises never leaves the block neither allocated nor free.
C30_DeallocateOfLivePointerSucceeds ==
    [][(/\ which = "buddy" /\ calls' # calls
        /\ ret'.op = "deallocate" /\ buddy.m_ownsMemory
        /\ ret'.arg \in LivePointers)
          => /\ ret'.status = "ok"
             /\ ret'.status # "ok" =>
                   \/ ret'.arg \in DOMAIN buddy'.allocatedBuddies
                   \/ \E l \in 0 .. NumLevels - 1 : ret'.arg \in FreeSet(buddy', l)]_vars

\* C31: buddy allocator: in every reachable state getAllocatedSize() is at most
\* the buffer size: the live blocks together never exceed the backing buffer.
C31_AllocatedSizeWithinBuffer ==
    (which = "buddy" /\ ~buddy.ub) =>
        /\ buddy_getAllocatedSize(buddy) <= buddy.m_buffersize
        /\ LiveBlockBytes(live) <= buddy.m_buffersize

\* the level of the block allocate looks for: get_level(get_power_of_two(size))
TargetLevel(size) == get_level(get_power_of_two(size))

\* C32: buddy allocator: an allocate that finds free_lists[target_level] empty
\* takes the head block of the smallest level L > target_level whose free list
\* is not empty and returns that block's address (the rest of list L is left as
\* it was), leaves exactly one free block on each level target_level .. L-1,
\* the upper half of the split made there, and changes no other free list; an
\* allocate fails, as handle_allocation_error reports it, only when no level
\* >= target_level has a free block, and then changes nothing.
C32_AllocateSplitsFromSmallestLevel ==
    [][(/\ which = "buddy" /\ calls' # calls /\ ret'.op = "allocate")
         => LET t == TargetLevel(ret'.size)
                L == find_non_empty_level(buddy, t + 1)
                p == ret'.ptr
                fuel == Cardinality(DOMAIN buddy.memory) + 1
            IN  /\ ret'.status \in {"ok", handle_allocation_error(ALLOCATOR_DEBUG)}
                /\ ret'.status # "ok" =>
                      /\ \A l \in t .. NumLevels - 1 : buddy.freeLists[l] = NULL
                      /\ buddy' = buddy
                /\ (buddy.freeLists[t] = NULL /\ L = -1) => ret'.status # "ok"
                /\ (buddy.freeLists[t] = NULL /\ L # -1) =>
                      /\ ret'.status = "ok"
                      /\ p = buddy.freeLists[L]
                      /\ FreeChain(buddy', buddy'.freeLists[L], fuel)
                            = FreeChain(buddy, buddy.memory[p], fuel)
                      /\ \A k \in t .. L - 1 :
                            FreeList(buddy', k) = <<p + get_level_size(k)>>
                      /\ \A k \in (0 .. NumLevels - 1) \ (t .. L) :
                            FreeList(buddy', k) = FreeList(buddy, k)
                      /\ buddy'.allocatedBuddies = MapPut(buddy.allocatedBuddies, p, t)]_vars

\* C33: buddy allocator: in every reachable state every block of the
\* allocation index and every block on free_lists[k] lies at an offset from
\* the buffer base that is a multiple of size_at_level(k).
C33_BlocksAlignedToTheirSize ==
    which = "buddy" =>
        /\ \A p \in DOMAIN buddy.allocatedBuddies :
              p % get_level_size(buddy.allocatedBuddies[p]) = 0
        /\ \A k \in 0 .. NumLevels - 1 :
              \A p \in FreeSet(buddy, k) : p % get_level_size(k) = 0
        /\ \A a \in live : a.ptr % get_level_size(a.level) = 0

\* free_lists[level] ends in nullptr without passing through a block twice
FreeListAcyclic(b, level) ==
    LET fl == FreeList(b, level)
    IN  /\ Len(fl) <= Cardinality(DOMAIN b.memory)
        /\ \A i \in 1 .. Len(fl) : \A j \in 1 .. Len(fl) : i # j => fl[i] # fl[j]

\* C34: buddy allocator: every allocate and deallocate terminates from every
\* reachable state: each per-level free list stays acyclic and null-terminated,
\* so no call is left scanning a free list for ever.
C34_BuddyCallsTerminate ==
    which = "buddy" =>
        /\ ret.status # "hang"
        /\ ~buddy.ub => \A k \in 0 .. NumLevels - 1 : FreeListAcyclic(buddy, k)

\* C35: pool allocator, debug build with g_debug_checks set: from any reachable
\* state, the state right after reset included, an allocate followed at once by
\* deallocate of the pointer it returned succeeds (it is not reported as a
\* double free) and puts getAllocatedSize() back to its value before the
\* allocate: the allocate adds one block to it and the deallocate takes one off.
C35_AllocateThenDeallocateSucceeds ==
    [][(/\ which = "pool" /\ ALLOCATOR_DEBUG /\ g_debug_checks /\ calls' # calls)
         => /\ (ret'.op = "allocate" /\ ret'.status = "ok") =>
                  pool_getAllocatedSize(pool') = pool_getAllocatedSize(pool) + pool.m_blockSize
            /\ (/\ ret.op = "allocate" /\ ret.status = "ok"
                /\ ret'.op = "deallocate" /\ ret'.arg = ret.ptr) =>
                  /\ ret'.status = "ok"
                  /\ pool_getAllocatedSize(pool') = pool_getAllocatedSize(pool) - pool.m_blockSize]_vars

\* C36: pool allocator: deallocate of a pointer that lies inside a pool but
\* not at a multiple of the (aligned) block size from the pool's base, or that
\* lies in no pool of the allocator, throws, and every pool's free list, its
\* links and its counters are left as they were.
C36_StrayPointerRejected ==
    [][(/\ which = "pool" /\ calls' # calls
        /\ ret'.op \in {"deallocate_misaligned", "deallocate_foreign"})
         => /\ ret'.status \in {"runtime_error", "invalid_argument"}
            /\ ret'.op = "deallocate_misaligned" /\ pool.m_ownsMemory
                  => ret'.status = "runtime_error"
            /\ pool' = pool
            /\ live' = live]_vars

\* a pointer into the middle of a block of the second pool was refused while
\* the pool had a block handed out and a block on its free list
C36_Witness ==
    /\ which = "pool" /\ ret.op = "deallocate_misaligned" /\ ret.status = "runtime_error"
    /\ Len(pool.pools) = 2 /\ ret.arg.base = 2
    /\ pool.pools[2].allocated_count = 1
    /\ pool.pools[2].free_list_head # NULL

C38_AllocateDeallocateRoundTrip ==
    /\ [](which = "stack" /\ Len(stack.buffers) > 1
             => stack.buffers[Len(stack.buffers)].offset > 0)
    /\ [][(/\ which = "stack" /\ calls' # calls
            /\ ret'.op = "allocate" /\ ret'.status = "ok" /\ ret'.size > 0)
             => LET n == Len(stack.buffers)
                    p == ret'.ptr
                    reserved == stack_getAllocatedSize(stack') - stack_getAllocatedSize(stack)
                IN  /\ reserved > 0
                    /\ \/ /\ n >= 1
                          /\ p = StackPtr(stack.buffers[n].memory, stack.buffers[n].offset)
                          /\ stack'.buffers = [stack.buffers EXCEPT ![n].offset = @ + reserved]
                       \/ /\ p.off = 0
                          /\ Len(stack'.buffers) = n + 1
                          /\ SubSeq(stack'.buffers, 1, n) = stack.buffers
                          /\ stack'.buffers[n + 1].memory = p.base
                          /\ stack'.buffers[n + 1].offset = reserved]_vars
    /\ [][(/\ which = "stack" /\ calls' # calls
            /\ ret.op = "allocate" /\ ret.status = "ok" /\ ret.size > 0
            /\ ret'.op = "deallocate" /\ ret'.arg = ret.ptr)
             => LET n == Len(stack.buffers)
                    p == ret.ptr
                IN  /\ stack'.buffers =
                          IF p.off = 0 /\ n > 1
                          THEN SubSeq(stack.buffers, 1, n - 1)
                          ELSE [stack.buffers EXCEPT ![n].offset = p.off]
                    /\ stack_getAllocatedSize(stack')
                          = stack_getAllocatedSize(stack) - stack.buffers[n].offset + p.off]_vars

\* three calls on a resizable allocator: an allocate, one that did not fit and
\* appended a buffer, and the deallocate of what it returned, which dropped
\* the buffer again
C38_Witness ==
    /\ which = "stack" /\ calls = 3 /\ Len(live) = 1
    /\ ret.op = "deallocate" /\ ret.status = "ok"
    /\ ret.arg.off = 0 /\ ret.arg.base # live[1].ptr.base
    /\ Len(stack.buffers) = 1
    /\ stack.buffers[1].offset = live[1].size /\ live[1].size > 0

====
